---- MODULE Spec2Model ----
(***************************************************************************)
(* A model of the Sushi Go client of src/royale_bot.py: the session        *)
(* orchestrator (run, run_tournament, _play_game and the join / leave      *)
(* helpers), the GameState record with its handlers, and the decision      *)
(* engine (choose_card, valid_combo, chopstick_combo).                     *)
(*                                                                         *)
(* One step of the model is one line read from the transport together with *)
(* everything the client does until it blocks on the next read (or ends).  *)
(* Indices into a hand are 0-based, as in the source and on the wire;      *)
(* TLA+ sequences are 1-based, so hand[i + 1] is Python's hand[i].         *)
(***************************************************************************)
EXTENDS Integers, Sequences, FiniteSets, TLC

VARIABLES
    mode,             \* "single" (run) or "tournament" (run_tournament)
    pc,               \* where the client blocks on a read, or how it ended
    connected,        \* self.sock is open
    state,            \* self.state: a GameState record, or NoState
    pending_message,  \* run_tournament's pending_message, or NoLine
    line,             \* the line read in the last step (NoLine when it read none)
    out,              \* the commands sent since the last read, oldest first
    in_match,         \* history: a TJOIN was answered by WELCOME and the
                      \* LEAVE that follows has not been answered yet
    rejected,         \* history: the last join attempt (JOIN, TOURNEY, TJOIN)
                      \* was answered by ERROR
    in_round,         \* history: a ROUND_START has been handled in this game
                      \* and no GAME_START has set the player count since
    result            \* the decision function last applied on its own and
                      \* the value it returned

vars == <<mode, pc, connected, state, pending_message, line, out, in_match, rejected,
          in_round, result>>

-----------------------------------------------------------------------------
(* Bounds of the model.                                                    *)

\* PLAYED is read only while state.turn < MaxTurn (turn grows without limit).
MaxTurn == 2

\* HAND is read only while own tableau holds fewer than MaxTableau cards
\* (every non-empty HAND appends to it).
MaxTableau == 2

\* The same two bounds for GameSpec, the specification of one game.
GameMaxTurn == 3
GameMaxTableau == 2

\* EngineSpec, the specification of the decision engine: the longest hand
\* over all cards, the longest hand over the combo cards, the longest next
\* hand, the most Puddings in one tableau and the last turn number.
EngineMaxHand == 2
EngineMaxComboHand == 3
EngineMaxNextHand == 2
EngineMaxPudding == 2
EngineMaxTurn == 10

\* ParseSpec, the specification of the line decoders: the most cards in a
\* HAND line and the most groups in a PLAYED line.
ParseMaxHand == 3
ParseMaxGroups == 2

-----------------------------------------------------------------------------
(* Sequence helpers: list.count, `in`, list.index, list.remove.            *)

RECURSIVE CountIn(_, _)
CountIn(seq, card) ==
    IF seq = <<>> THEN 0
    ELSE (IF Head(seq) = card THEN 1 ELSE 0) + CountIn(Tail(seq), card)

In(card, seq) == \E i \in 1..Len(seq) : seq[i] = card

\* list.index(card): the 0-based index of the first occurrence (card is in seq).
Index(seq, card) ==
    (CHOOSE i \in 1..Len(seq) :
        seq[i] = card /\ \A j \in 1..(i - 1) : seq[j] # card) - 1

\* list.remove(card): seq without the first occurrence of card (card is in seq).
Remove(seq, card) ==
    LET k == Index(seq, card) + 1
    IN  [i \in 1..(Len(seq) - 1) |-> IF i < k THEN seq[i] ELSE seq[i + 1]]

\* [i for i, c in enumerate(seq) if c == card], 0-based, ascending.
RECURSIVE IndicesFrom(_, _, _)
IndicesFrom(seq, card, k) ==
    IF k > Len(seq) THEN <<>>
    ELSE (IF seq[k] = card THEN <<k - 1>> ELSE <<>>) \o IndicesFrom(seq, card, k + 1)

Indices(seq, card) == IndicesFrom(seq, card, 1)

Max(S) == CHOOSE x \in S : \A y \in S : y <= x
Min(S) == CHOOSE x \in S : \A y \in S : x <= y

-----------------------------------------------------------------------------
(* GameState (the dataclass) and its helpers.                              *)

\* Optional[list[str]]: a slot of all_hands is None until the hand is seen.
None == [known |-> FALSE, cards |-> <<>>]
Some(cards) == [known |-> TRUE, cards |-> cards]

\* The empty dict.
EmptyDict == [p \in {} |-> <<>>]

\* self.state = None
NoState == [none |-> TRUE]

\* GameState(game_id, player_id, rejoin_token, player_name) with the
\* dataclass defaults for every other field.
GameState(game_id, player_id, rejoin_token, player_name) ==
    [ game_id           |-> game_id,
      player_id         |-> player_id,
      rejoin_token      |-> rejoin_token,
      player_name       |-> player_name,
      hand              |-> <<>>,
      player_count      |-> 0,
      all_hands         |-> <<>>,
      current_hand_ptr  |-> 0,
      my_tableau        |-> <<>>,
      all_tableaux      |-> EmptyDict,
      last_card_played  |-> "None",
      last_turn_reveals |-> EmptyDict,
      round             |-> 1,
      turn              |-> 1 ]

\* GameState.next_hand
next_hand(s) ==
    LET idx == s.current_hand_ptr + 1
    IN  IF idx < Len(s.all_hands) THEN s.all_hands[idx + 1] ELSE None

\* GameState.count
count(s, card) == CountIn(s.my_tableau, card)

\* GameState.has_chopsticks
has_chopsticks(s) == In("Chopsticks", s.my_tableau)

has_unused_wasabi_at_par(s) ==
    LET wasabi == count(s, "Wasabi")
        nigiri == count(s, "Egg Nigiri") + count(s, "Salmon Nigiri")
                    + count(s, "Squid Nigiri")
    IN  wasabi >= nigiri

\* GameState.has_unused_wasabi
has_unused_wasabi(s) ==
    LET wasabi == count(s, "Wasabi")
        nigiri == count(s, "Egg Nigiri") + count(s, "Salmon Nigiri")
                    + count(s, "Squid Nigiri")
    IN  wasabi > nigiri

\* GameState.puddings
puddings(s) == count(s, "Pudding")

-----------------------------------------------------------------------------
(* The decision engine.                                                    *)

occurances(hand, card) == CountIn(hand, card)

nigiri_types == <<"Egg Nigiri", "Salmon Nigiri", "Squid Nigiri">>

valid_combo_tempura_first(s, hand, my_table) ==
       (IF occurances(my_table, "Tempura") % 2 = 1 /\ In("Tempura", hand)
        THEN <<"Tempura">> ELSE <<>>)
    \o (IF occurances(my_table, "Sashimi") % 3 = 2 /\ In("Sashimi", hand)
        THEN <<"Sashimi">> ELSE <<>>)
    \o (IF has_unused_wasabi(s) /\ In("Squid Nigiri", hand)
        THEN <<"Squid Nigiri">> ELSE <<>>)
    \o (IF has_unused_wasabi(s) /\ In("Salmon Nigiri", hand)
        THEN <<"Salmon Nigiri">> ELSE <<>>)
    \o (IF has_unused_wasabi(s) /\ In("Egg Nigiri", hand)
        THEN <<"Egg Nigiri">> ELSE <<>>)

\* valid_combo: the card names worth playing as a single play, best first.
valid_combo(s, hand, my_table) ==
       (IF occurances(my_table, "Sashimi") % 3 = 2 /\ In("Sashimi", hand)
        THEN <<"Sashimi">> ELSE <<>>)
    \o (IF has_unused_wasabi(s) /\ In("Squid Nigiri", hand)
        THEN <<"Squid Nigiri">> ELSE <<>>)
    \o (IF has_unused_wasabi(s) /\ In("Salmon Nigiri", hand)
        THEN <<"Salmon Nigiri">> ELSE <<>>)
    \o (IF occurances(my_table, "Tempura") % 2 = 1 /\ In("Tempura", hand)
        THEN <<"Tempura">> ELSE <<>>)
    \o (IF has_unused_wasabi(s) /\ In("Egg Nigiri", hand)
        THEN <<"Egg Nigiri">> ELSE <<>>)

should_grab_chopsticks_for_one_sashimi(hand, s) ==
    IF ~In("Chopsticks", hand) THEN FALSE
    ELSE IF has_chopsticks(s) THEN FALSE
    ELSE LET next_h == next_hand(s)
         IN  IF ~next_h.known THEN FALSE
             ELSE IF In("Wasabi", next_h.cards)
                     /\ \E n \in 1..Len(nigiri_types) : In(nigiri_types[n], next_h.cards)
                  THEN TRUE
             ELSE IF CountIn(next_h.cards, "Sashimi") >= 1 THEN TRUE
             ELSE IF CountIn(next_h.cards, "Tempura") >= 2 THEN TRUE
             ELSE FALSE

\* should_grab_chopsticks
should_grab_chopsticks(hand, s) ==
    IF ~In("Chopsticks", hand) THEN FALSE
    ELSE IF has_chopsticks(s) THEN FALSE
    ELSE LET next_h == next_hand(s)
         IN  IF ~next_h.known THEN FALSE
             ELSE IF In("Wasabi", next_h.cards)
                     /\ \E n \in 1..Len(nigiri_types) : In(nigiri_types[n], next_h.cards)
                  THEN TRUE
             ELSE IF CountIn(next_h.cards, "Sashimi") >= 2 THEN TRUE
             ELSE IF CountIn(next_h.cards, "Tempura") >= 2 THEN TRUE
             ELSE FALSE

\* The per-player-count table of turns in a round (0 for any other count).
total_turns(player_count) ==
    IF player_count = 2 THEN 10
    ELSE IF player_count = 3 THEN 9
    ELSE IF player_count = 4 THEN 8
    ELSE IF player_count = 5 THEN 7
    ELSE 0

pudding_rule_no_catch_up(s) ==
    LET pudding_counts == { CountIn(s.all_tableaux[p], "Pudding") :
                               p \in DOMAIN s.all_tableaux }
    IN  IF pudding_counts = {} THEN FALSE
        ELSE \/ puddings(s) < Max(pudding_counts)
             \/ puddings(s) <= Min(pudding_counts)

\* The pudding rule's condition (the elif of choose_card), given that
\* some tableau is tracked.
pudding_rule(s) ==
    LET turns_left     == total_turns(s.player_count) - s.turn
        pudding_counts == { CountIn(s.all_tableaux[p], "Pudding") :
                               p \in DOMAIN s.all_tableaux }
    IN  IF pudding_counts = {} THEN FALSE
        ELSE \/ /\ puddings(s) < Max(pudding_counts)
                /\ puddings(s) + turns_left > Max(pudding_counts)
             \/ puddings(s) <= Min(pudding_counts)

choose_card_banks_wasabi_early(hand, s) ==
    LET combos       == valid_combo(s, hand, s.my_tableau)
        nigiri_count == Cardinality({ i \in 1..Len(hand) :
                            \E n \in 1..Len(nigiri_types) : hand[i] = nigiri_types[n] })
    IN  IF combos # <<>> THEN Index(hand, combos[1])
        ELSE IF should_grab_chopsticks(hand, s) /\ In("Chopsticks", hand)
            THEN Index(hand, "Chopsticks")
        ELSE IF pudding_rule(s) /\ In("Pudding", hand) THEN Index(hand, "Pudding")
        ELSE IF nigiri_count >= 1 /\ In("Wasabi", hand) THEN Index(hand, "Wasabi")
        ELSE IF count(s, "Dumpling") < 5 /\ In("Dumpling", hand)
            THEN Index(hand, "Dumpling")
        ELSE IF In("Squid Nigiri", hand) THEN Index(hand, "Squid Nigiri")
        ELSE IF In("Salmon Nigiri", hand) THEN Index(hand, "Salmon Nigiri")
        ELSE IF In("Egg Nigiri", hand) THEN Index(hand, "Egg Nigiri")
        ELSE IF count(s, "Sashimi") = 1 /\ In("Sashimi", hand)
            THEN Index(hand, "Sashimi")
        ELSE IF count(s, "Tempura") = 1 /\ In("Tempura", hand)
            THEN Index(hand, "Tempura")
        ELSE IF In("Sashimi", hand) THEN Index(hand, "Sashimi")
        ELSE IF In("Maki Roll (3)", hand) THEN Index(hand, "Maki Roll (3)")
        ELSE IF In("Maki Roll (2)", hand) THEN Index(hand, "Maki Roll (2)")
        ELSE IF In("Maki Roll (1)", hand) THEN Index(hand, "Maki Roll (1)")
        ELSE 0

choose_card_four_dumplings(hand, s) ==
    LET combos       == valid_combo(s, hand, s.my_tableau)
        nigiri_count == Cardinality({ i \in 1..Len(hand) :
                            \E n \in 1..Len(nigiri_types) : hand[i] = nigiri_types[n] })
    IN  IF combos # <<>> THEN Index(hand, combos[1])
        ELSE IF should_grab_chopsticks(hand, s) /\ In("Chopsticks", hand)
            THEN Index(hand, "Chopsticks")
        ELSE IF pudding_rule(s) /\ In("Pudding", hand) THEN Index(hand, "Pudding")
        ELSE IF nigiri_count >= 2 /\ In("Wasabi", hand) THEN Index(hand, "Wasabi")
        ELSE IF count(s, "Dumpling") < 4 /\ In("Dumpling", hand)
            THEN Index(hand, "Dumpling")
        ELSE IF In("Squid Nigiri", hand) THEN Index(hand, "Squid Nigiri")
        ELSE IF In("Salmon Nigiri", hand) THEN Index(hand, "Salmon Nigiri")
        ELSE IF In("Egg Nigiri", hand) THEN Index(hand, "Egg Nigiri")
        ELSE IF count(s, "Sashimi") = 1 /\ In("Sashimi", hand)
            THEN Index(hand, "Sashimi")
        ELSE IF count(s, "Tempura") = 1 /\ In("Tempura", hand)
            THEN Index(hand, "Tempura")
        ELSE IF In("Sashimi", hand) THEN Index(hand, "Sashimi")
        ELSE IF In("Maki Roll (3)", hand) THEN Index(hand, "Maki Roll (3)")
        ELSE IF In("Maki Roll (2)", hand) THEN Index(hand, "Maki Roll (2)")
        ELSE IF In("Maki Roll (1)", hand) THEN Index(hand, "Maki Roll (1)")
        ELSE 0

\* choose_card: the 0-based index of the card to play.
choose_card(hand, s) ==
    LET combos       == valid_combo(s, hand, s.my_tableau)
        nigiri_count == Cardinality({ i \in 1..Len(hand) :
                            \E n \in 1..Len(nigiri_types) : hand[i] = nigiri_types[n] })
    IN  IF combos # <<>> THEN Index(hand, combos[1])
        ELSE IF should_grab_chopsticks(hand, s) /\ In("Chopsticks", hand)
            THEN Index(hand, "Chopsticks")
        ELSE IF pudding_rule(s) /\ In("Pudding", hand) THEN Index(hand, "Pudding")
        ELSE IF nigiri_count >= 2 /\ In("Wasabi", hand) THEN Index(hand, "Wasabi")
        ELSE IF count(s, "Dumpling") < 5 /\ In("Dumpling", hand)
            THEN Index(hand, "Dumpling")
        ELSE IF In("Squid Nigiri", hand) THEN Index(hand, "Squid Nigiri")
        ELSE IF In("Salmon Nigiri", hand) THEN Index(hand, "Salmon Nigiri")
        ELSE IF In("Egg Nigiri", hand) THEN Index(hand, "Egg Nigiri")
        ELSE IF count(s, "Sashimi") = 1 /\ In("Sashimi", hand)
            THEN Index(hand, "Sashimi")
        ELSE IF count(s, "Tempura") = 1 /\ In("Tempura", hand)
            THEN Index(hand, "Tempura")
        ELSE IF In("Sashimi", hand) THEN Index(hand, "Sashimi")
        ELSE IF In("Maki Roll (3)", hand) THEN Index(hand, "Maki Roll (3)")
        ELSE IF In("Maki Roll (2)", hand) THEN Index(hand, "Maki Roll (2)")
        ELSE IF In("Maki Roll (1)", hand) THEN Index(hand, "Maki Roll (1)")
        ELSE 0

chopstick_combo_in_hand_order(hand, s) ==
    LET sashimi_indices == Indices(hand, "Sashimi")
        tempura_indices == Indices(hand, "Tempura")
    IN  IF ~has_chopsticks(s) THEN <<>>
        ELSE IF occurances(s.my_tableau, "Sashimi") % 3 = 1 /\ Len(sashimi_indices) >= 2
            THEN <<sashimi_indices[1], sashimi_indices[2]>>
        ELSE IF In("Wasabi", hand) /\ In("Squid Nigiri", hand)
            THEN <<Min({Index(hand, "Wasabi"), Index(hand, "Squid Nigiri")}),
                   Max({Index(hand, "Wasabi"), Index(hand, "Squid Nigiri")})>>
        ELSE IF In("Wasabi", hand) /\ In("Salmon Nigiri", hand)
            THEN <<Min({Index(hand, "Wasabi"), Index(hand, "Salmon Nigiri")}),
                   Max({Index(hand, "Wasabi"), Index(hand, "Salmon Nigiri")})>>
        ELSE IF occurances(s.my_tableau, "Tempura") % 2 = 1 /\ Len(tempura_indices) >= 2
            THEN <<tempura_indices[1], tempura_indices[2]>>
        ELSE IF In("Wasabi", hand) /\ In("Egg Nigiri", hand)
            THEN <<Min({Index(hand, "Wasabi"), Index(hand, "Egg Nigiri")}),
                   Max({Index(hand, "Wasabi"), Index(hand, "Egg Nigiri")})>>
        ELSE <<>>

chopstick_combo_tempura_first(hand, s) ==
    LET sashimi_indices == Indices(hand, "Sashimi")
        tempura_indices == Indices(hand, "Tempura")
    IN  IF ~has_chopsticks(s) THEN <<>>
        ELSE IF occurances(s.my_tableau, "Sashimi") % 3 = 1 /\ Len(sashimi_indices) >= 2
            THEN <<sashimi_indices[1], sashimi_indices[2]>>
        ELSE IF occurances(s.my_tableau, "Tempura") % 2 = 1 /\ Len(tempura_indices) >= 2
            THEN <<tempura_indices[1], tempura_indices[2]>>
        ELSE IF In("Wasabi", hand) /\ In("Squid Nigiri", hand)
            THEN <<Index(hand, "Wasabi"), Index(hand, "Squid Nigiri")>>
        ELSE IF In("Wasabi", hand) /\ In("Salmon Nigiri", hand)
            THEN <<Index(hand, "Wasabi"), Index(hand, "Salmon Nigiri")>>
        ELSE IF In("Wasabi", hand) /\ In("Egg Nigiri", hand)
            THEN <<Index(hand, "Wasabi"), Index(hand, "Egg Nigiri")>>
        ELSE <<>>

chopstick_combo_same_sashimi_twice(hand, s) ==
    LET sashimi_indices == Indices(hand, "Sashimi")
        tempura_indices == Indices(hand, "Tempura")
    IN  IF ~has_chopsticks(s) THEN <<>>
        ELSE IF occurances(s.my_tableau, "Sashimi") % 3 = 1 /\ Len(sashimi_indices) >= 2
            THEN <<sashimi_indices[1], sashimi_indices[1]>>
        ELSE IF In("Wasabi", hand) /\ In("Squid Nigiri", hand)
            THEN <<Index(hand, "Wasabi"), Index(hand, "Squid Nigiri")>>
        ELSE IF In("Wasabi", hand) /\ In("Salmon Nigiri", hand)
            THEN <<Index(hand, "Wasabi"), Index(hand, "Salmon Nigiri")>>
        ELSE IF occurances(s.my_tableau, "Tempura") % 2 = 1 /\ Len(tempura_indices) >= 2
            THEN <<tempura_indices[1], tempura_indices[2]>>
        ELSE IF In("Wasabi", hand) /\ In("Egg Nigiri", hand)
            THEN <<Index(hand, "Wasabi"), Index(hand, "Egg Nigiri")>>
        ELSE <<>>

\* chopstick_combo: <<idx1, idx2>> (idx1 is played first), or <<>> for None.
chopstick_combo(hand, s) ==
    LET sashimi_indices == Indices(hand, "Sashimi")
        tempura_indices == Indices(hand, "Tempura")
    IN  IF ~has_chopsticks(s) THEN <<>>
        ELSE IF occurances(s.my_tableau, "Sashimi") % 3 = 1 /\ Len(sashimi_indices) >= 2
            THEN <<sashimi_indices[1], sashimi_indices[2]>>
        ELSE IF In("Wasabi", hand) /\ In("Squid Nigiri", hand)
            THEN <<Index(hand, "Wasabi"), Index(hand, "Squid Nigiri")>>
        ELSE IF In("Wasabi", hand) /\ In("Salmon Nigiri", hand)
            THEN <<Index(hand, "Wasabi"), Index(hand, "Salmon Nigiri")>>
        ELSE IF occurances(s.my_tableau, "Tempura") % 2 = 1 /\ Len(tempura_indices) >= 2
            THEN <<tempura_indices[1], tempura_indices[2]>>
        ELSE IF In("Wasabi", hand) /\ In("Egg Nigiri", hand)
            THEN <<Index(hand, "Wasabi"), Index(hand, "Egg Nigiri")>>
        ELSE <<>>

\* choose_chopsticks
choose_chopsticks(hand, s) == chopstick_combo(hand, s)

-----------------------------------------------------------------------------
(* Lines and commands.                                                     *)

\* An inbound line after recv()'s strip(): kw is the keyword the handlers
\* test with startswith ("" for an empty line), parts is message.split(),
\* hand is what parse_hand returns for it and reveals what parse_played
\* returns for it.
Msg(kw, args) ==
    [kw |-> kw, parts |-> <<kw>> \o args, hand |-> <<>>, reveals |-> EmptyDict]

HandMsg(cards) == [Msg("HAND", <<>>) EXCEPT !.hand = cards]

PlayedMsg(reveals) == [Msg("PLAYED", <<>>) EXCEPT !.reveals = reveals]

\* pending_message = None; as the value of line: no line was read.
NoLine == Msg("None", <<>>)

\* The value of result when no decision function has been applied on its own.
NoResult == [fn |-> "none", value |-> 0]

\* An outbound command: "PLAY idx1", "CHOPSTICKS idx1 idx2", "TJOIN arg", ...
Command(cmd, idx1, idx2, arg) == [cmd |-> cmd, idx1 |-> idx1, idx2 |-> idx2, arg |-> arg]

Plain(cmd) == Command(cmd, -1, -1, "")

\* int(token): defined on the decimal tokens the lines of the model carry;
\* on any other token int() raises ValueError.
Digits == {"0", "1", "2", "3", "4", "5"}

int(token) ==
    CASE token = "0" -> 0
      [] token = "1" -> 1
      [] token = "2" -> 2
      [] token = "3" -> 3
      [] token = "4" -> 4
      [] token = "5" -> 5

\* The command-line arguments of the run.
player_name == "Alice"
game_id == "g1"
tournament_id == "t1"

-----------------------------------------------------------------------------
(* The handlers of SushiGoBot, as functions of the GameState record.       *)

\* list without any occurrence of card.
RemoveAll(seq, card) == SelectSeq(seq, LAMBDA c : c # card)

\* _record_play removing every occurrence of the card from the tracked hand.
_record_play_removes_all(s, card) ==
    LET ptr == s.current_hand_ptr
        s1  == [s EXCEPT !.last_card_played = card,
                         !.my_tableau = Append(@, card)]
    IN  IF ptr < Len(s1.all_hands) /\ s1.all_hands[ptr + 1].known
            /\ In(card, s1.all_hands[ptr + 1].cards)
        THEN [s1 EXCEPT !.all_hands[ptr + 1] = Some(RemoveAll(@.cards, card))]
        ELSE s1

\* _record_play
_record_play(s, card) ==
    LET ptr == s.current_hand_ptr
        s1  == [s EXCEPT !.last_card_played = card,
                         !.my_tableau = Append(@, card)]
    IN  IF ptr < Len(s1.all_hands) /\ s1.all_hands[ptr + 1].known
            /\ In(card, s1.all_hands[ptr + 1].cards)
        THEN [s1 EXCEPT !.all_hands[ptr + 1] = Some(Remove(@.cards, card))]
        ELSE s1

\* play_turn with the `return` after the CHOPSTICKS command missing: the
\* single-card play follows the two-card one.
play_turn_sends_fallthrough(s) ==
    LET hand == s.hand
        chop == IF has_chopsticks(s) THEN choose_chopsticks(hand, s) ELSE <<>>
    IN  IF hand = <<>> THEN <<>>
        ELSE (IF chop # <<>> THEN <<Command("CHOPSTICKS", chop[1], chop[2], "")>> ELSE <<>>)
             \o <<Command("PLAY", choose_card(hand, s), -1, "")>>

play_turn_sends_single_only(s) ==
    LET hand == s.hand
    IN  IF hand = <<>> THEN <<>>
        ELSE <<Command("PLAY", choose_card(hand, s), -1, "")>>

\* play_turn: the commands it sends.
play_turn_sends(s) ==
    LET hand == s.hand
        chop == IF has_chopsticks(s) THEN choose_chopsticks(hand, s) ELSE <<>>
    IN  IF hand = <<>> THEN <<>>
        ELSE IF chop # <<>> THEN <<Command("CHOPSTICKS", chop[1], chop[2], "")>>
        ELSE <<Command("PLAY", choose_card(hand, s), -1, "")>>

\* play_turn: the state it leaves.
play_turn(s) ==
    LET hand == s.hand
        chop == IF has_chopsticks(s) THEN choose_chopsticks(hand, s) ELSE <<>>
    IN  IF hand = <<>> THEN s
        ELSE IF chop # <<>>
            THEN LET s1 == _record_play(s, hand[chop[1] + 1])
                     s2 == [s1 EXCEPT !.my_tableau = Append(@, hand[chop[2] + 1])]
                 IN  IF In("Chopsticks", s2.my_tableau)
                     THEN [s2 EXCEPT !.my_tableau = Remove(@, "Chopsticks")]
                     ELSE s2
        ELSE _record_play(s, hand[choose_card(hand, s) + 1])

\* handle_game_start raises ValueError when int(parts[1]) does.
handle_game_start_raises(message) ==
    Len(message.parts) >= 2 /\ message.parts[2] \notin Digits

\* handle_game_start
handle_game_start(s, message) ==
    IF Len(message.parts) >= 2
    THEN LET n == int(message.parts[2])
         IN  [s EXCEPT !.player_count = n,
                       !.all_hands = [i \in 1..n |-> None]]
    ELSE s

\* handle_round_start raises IndexError on parts[1] or ValueError on int().
handle_round_start_raises(message) ==
    Len(message.parts) < 2 \/ message.parts[2] \notin Digits

\* handle_round_start without the reset of all_tableaux.
handle_round_start_keeps_tableaux(s, message) ==
    [s EXCEPT !.round             = int(message.parts[2]),
              !.turn              = 1,
              !.my_tableau        = <<>>,
              !.last_card_played  = "None",
              !.last_turn_reveals = EmptyDict,
              !.current_hand_ptr  = 0,
              !.all_hands         = [i \in 1..Max({s.player_count, 1}) |-> None]]

\* handle_round_start without the reset of all_hands.
handle_round_start_keeps_hands(s, message) ==
    [s EXCEPT !.round             = int(message.parts[2]),
              !.turn              = 1,
              !.my_tableau        = <<>>,
              !.last_card_played  = "None",
              !.last_turn_reveals = EmptyDict,
              !.current_hand_ptr  = 0,
              !.all_tableaux      = EmptyDict]

\* handle_round_start with [None] * player_count, without max(..., 1).
handle_round_start_no_floor(s, message) ==
    [s EXCEPT !.round             = int(message.parts[2]),
              !.turn              = 1,
              !.my_tableau        = <<>>,
              !.last_card_played  = "None",
              !.last_turn_reveals = EmptyDict,
              !.current_hand_ptr  = 0,
              !.all_hands         = [i \in 1..s.player_count |-> None],
              !.all_tableaux      = EmptyDict]

\* handle_round_start without the reset of turn.
handle_round_start_keeps_turn(s, message) ==
    [s EXCEPT !.round             = int(message.parts[2]),
              !.my_tableau        = <<>>,
              !.last_card_played  = "None",
              !.last_turn_reveals = EmptyDict,
              !.current_hand_ptr  = 0,
              !.all_hands         = [i \in 1..Max({s.player_count, 1}) |-> None],
              !.all_tableaux      = EmptyDict]

\* handle_round_start
handle_round_start(s, message) ==
    [s EXCEPT !.round             = int(message.parts[2]),
              !.turn              = 1,
              !.my_tableau        = <<>>,
              !.last_card_played  = "None",
              !.last_turn_reveals = EmptyDict,
              !.current_hand_ptr  = 0,
              !.all_hands         = [i \in 1..Max({s.player_count, 1}) |-> None],
              !.all_tableaux      = EmptyDict]

\* handle_played assigning the revealed cards instead of extending with them.
handle_played_overwrites(s, message) ==
    LET reveals  == message.reveals
        tableaux == [p \in DOMAIN s.all_tableaux \cup DOMAIN reveals |->
                        IF p \in DOMAIN reveals THEN reveals[p] ELSE s.all_tableaux[p]]
        our_name == s.player_name
    IN  [s EXCEPT !.last_turn_reveals = reveals,
                  !.turn              = @ + 1,
                  !.all_tableaux      = tableaux,
                  !.my_tableau        = IF our_name \in DOMAIN tableaux
                                        THEN tableaux[our_name] ELSE @,
                  !.current_hand_ptr  = @ + 1]

\* handle_played without the copy of all_tableaux[our_name] into my_tableau.
handle_played_no_sync(s, message) ==
    LET reveals  == message.reveals
        tableaux == [p \in DOMAIN s.all_tableaux \cup DOMAIN reveals |->
                        (IF p \in DOMAIN s.all_tableaux THEN s.all_tableaux[p] ELSE <<>>)
                        \o (IF p \in DOMAIN reveals THEN reveals[p] ELSE <<>>)]
    IN  [s EXCEPT !.last_turn_reveals = reveals,
                  !.turn              = @ + 1,
                  !.all_tableaux      = tableaux,
                  !.current_hand_ptr  = @ + 1]

\* handle_played keeping only the players of this reveal in all_tableaux.
handle_played_drops_absent(s, message) ==
    LET reveals  == message.reveals
        tableaux == [p \in DOMAIN reveals |->
                        (IF p \in DOMAIN s.all_tableaux THEN s.all_tableaux[p] ELSE <<>>)
                        \o reveals[p]]
        our_name == s.player_name
    IN  [s EXCEPT !.last_turn_reveals = reveals,
                  !.turn              = @ + 1,
                  !.all_tableaux      = tableaux,
                  !.my_tableau        = IF our_name \in DOMAIN tableaux
                                        THEN tableaux[our_name] ELSE @,
                  !.current_hand_ptr  = @ + 1]

\* handle_played
handle_played(s, message) ==
    LET reveals  == message.reveals
        tableaux == [p \in DOMAIN s.all_tableaux \cup DOMAIN reveals |->
                        (IF p \in DOMAIN s.all_tableaux THEN s.all_tableaux[p] ELSE <<>>)
                        \o (IF p \in DOMAIN reveals THEN reveals[p] ELSE <<>>)]
        our_name == s.player_name
    IN  [s EXCEPT !.last_turn_reveals = reveals,
                  !.turn              = @ + 1,
                  !.all_tableaux      = tableaux,
                  !.my_tableau        = IF our_name \in DOMAIN tableaux
                                        THEN tableaux[our_name] ELSE @,
                  !.current_hand_ptr  = @ + 1]

\* The HAND branch storing the hand one slot past the cursor.
observe_hand_next_slot(s, message) ==
    LET parsed == message.hand
        ptr    == s.current_hand_ptr + 1
        s1     == [s EXCEPT !.hand = parsed]
    IN  IF ptr < Len(s1.all_hands)
        THEN [s1 EXCEPT !.all_hands[ptr + 1] = Some(parsed)]
        ELSE s1

\* The HAND branch storing the hand under the cursor and one slot ahead.
observe_hand_fills_ahead(s, message) ==
    LET parsed == message.hand
        ptr    == s.current_hand_ptr
        s1     == [s EXCEPT !.hand = parsed]
        s2     == IF ptr < Len(s1.all_hands)
                  THEN [s1 EXCEPT !.all_hands[ptr + 1] = Some(parsed)]
                  ELSE s1
    IN  IF ptr + 1 < Len(s2.all_hands)
        THEN [s2 EXCEPT !.all_hands[ptr + 2] = Some(parsed)]
        ELSE s2

\* The HAND branch of _play_game, up to the call of play_turn.
observe_hand(s, message) ==
    LET parsed == message.hand
        ptr    == s.current_hand_ptr
        s1     == [s EXCEPT !.hand = parsed]
    IN  IF ptr < Len(s1.all_hands)
        THEN [s1 EXCEPT !.all_hands[ptr + 1] = Some(parsed)]
        ELSE s1

-----------------------------------------------------------------------------
(* The session orchestrator.                                               *)
(*                                                                         *)
(* pc names the function whose read the client is blocked in:              *)
(*   "join_game", "_join_tournament", "_join_match", "_leave_game"  (each  *)
(*   inside recv_until), "_play_game", "run_tournament" (the recv at the   *)
(*   top of its loop);                                                     *)
(* or how the run ended: "done" (run / run_tournament returned), "failed"  *)
(* (an exception was re-raised), "interrupted" (KeyboardInterrupt).  On    *)
(* all three the finally clause has called disconnect.                     *)

Reading == {"join_game", "_join_tournament", "_join_match", "_leave_game",
            "_play_game", "run_tournament"}

Ended == {"done", "failed", "interrupted"}

\* disconnect() that leaves the socket as it is.
disconnect_missing == connected

\* disconnect(): the socket is closed (the value of connected afterwards).
disconnect == FALSE

\* `except Exception: raise` and `finally: self.disconnect()`.
Raise == pc' = "failed" /\ connected' = disconnect

\* A return out of run / run_tournament, through `finally: self.disconnect()`.
Return == pc' = "done" /\ connected' = disconnect

\* `except KeyboardInterrupt` and `finally: self.disconnect()`.
Interrupted == pc' = "interrupted" /\ connected' = disconnect

\* The client stays blocked in the same read, having sent nothing.
Stay == UNCHANGED <<pc, connected>> /\ out' = <<>>

\* recv_until's test of a line: msg and predicate(msg), for a predicate
\* that accepts the keywords of `accepted`.
recv_until_accepts(msg, accepted) == msg.kw # "" /\ msg.kw \in accepted

\* The WELCOME branch of join_game / _join_match raises IndexError on
\* parts[1], parts[2] or ValueError on int(parts[2]).
welcome_raises(response) ==
    Len(response.parts) < 3 \/ response.parts[3] \notin Digits

\* The GameState that join_game / _join_match builds from a WELCOME line.
welcome_state(response) ==
    GameState(response.parts[2], int(response.parts[3]),
              IF Len(response.parts) > 3 THEN response.parts[4] ELSE "",
              player_name)

\* The per-game loop entered without READY being sent.
send_ready_missing ==
    /\ out' = <<>>
    /\ pc' = "_play_game"
    /\ UNCHANGED connected

\* join_game has returned True: run sends READY and enters _play_game.
\* _join_match has returned True: run_tournament does the same.
send_ready ==
    /\ out' = <<Plain("READY")>>
    /\ pc' = "_play_game"
    /\ UNCHANGED connected

\* One pass of run_tournament's loop body for the non-empty message msg
\* (read by recv(), or the pending one), up to the next blocking read.
run_tournament_body(msg) ==
    IF msg.kw = "TOURNAMENT_MATCH"
    THEN IF Len(msg.parts) < 4
         THEN Raise /\ out' = <<>> /\ UNCHANGED rejected
         ELSE LET match_token == msg.parts[3]
                  opponent    == IF Len(msg.parts) > 4 THEN msg.parts[5] ELSE "unknown"
              IN  IF match_token = "BYE" \/ opponent = "BYE"
                  THEN /\ pc' = "run_tournament"
                       /\ out' = <<>>
                       /\ UNCHANGED <<connected, rejected>>
                  ELSE \* _join_match sends TJOIN and blocks in recv_until
                       /\ pc' = "_join_match"
                       /\ out' = <<Command("TJOIN", -1, -1, match_token)>>
                       /\ rejected' = FALSE
                       /\ UNCHANGED connected
    ELSE IF msg.kw = "TOURNAMENT_COMPLETE"
    THEN Return /\ out' = <<>> /\ UNCHANGED rejected
    ELSE /\ pc' = "run_tournament"
         /\ out' = <<>>
         /\ UNCHANGED <<connected, rejected>>

\* run_tournament without the call of _leave_game: the returned message is
\* processed as soon as _play_game returns.
play_game_returns_without_leave(ret) ==
    IF mode = "single"
    THEN Return /\ out' = <<>> /\ UNCHANGED pending_message
    ELSE /\ pending_message' = NoLine
         /\ IF ret # NoLine
            THEN run_tournament_body(ret)
            ELSE pc' = "run_tournament" /\ out' = <<>> /\ UNCHANGED connected

\* _play_game has returned ret (a tournament line, or NoLine for None).
\* run ignores the value and returns; run_tournament keeps it in
\* pending_message and calls _leave_game, which sends LEAVE and blocks.
play_game_returns(ret) ==
    IF mode = "single"
    THEN Return /\ out' = <<>> /\ UNCHANGED pending_message
    ELSE /\ pending_message' = ret
         /\ out' = <<Plain("LEAVE")>>
         /\ pc' = "_leave_game"
         /\ UNCHANGED connected

\* join_game: a line read inside its recv_until.
JoinGameRecv(msg) ==
    /\ pc = "join_game"
    /\ line' = msg
    /\ UNCHANGED <<mode, pending_message, in_match, in_round, result>>
    /\ IF ~recv_until_accepts(msg, {"WELCOME", "ERROR"})
       THEN Stay /\ UNCHANGED <<state, rejected>>
       ELSE IF msg.kw = "WELCOME"
       THEN IF welcome_raises(msg)
            THEN Raise /\ out' = <<>> /\ UNCHANGED <<state, rejected>>
            ELSE state' = welcome_state(msg) /\ send_ready /\ UNCHANGED rejected
       ELSE \* ERROR: join_game returns False and run returns
            Return /\ out' = <<>> /\ rejected' = TRUE /\ UNCHANGED state

\* _join_tournament: a line read inside its recv_until.
JoinTournamentRecv(msg) ==
    /\ pc = "_join_tournament"
    /\ line' = msg
    /\ UNCHANGED <<mode, state, pending_message, in_match, in_round, result>>
    /\ IF ~recv_until_accepts(msg, {"TOURNAMENT_WELCOME", "ERROR"})
       THEN Stay /\ UNCHANGED rejected
       ELSE IF msg.kw = "TOURNAMENT_WELCOME"
       THEN pc' = "run_tournament" /\ out' = <<>> /\ UNCHANGED <<connected, rejected>>
       ELSE Return /\ out' = <<>> /\ rejected' = TRUE

\* run_tournament: a line read by the recv() at the top of its loop
\* (pending_message is None there).
TournamentRecv(msg) ==
    /\ pc = "run_tournament"
    /\ line' = msg
    /\ UNCHANGED <<mode, state, pending_message, in_match, in_round, result>>
    /\ IF msg.kw = ""
       THEN Stay /\ UNCHANGED rejected
       ELSE run_tournament_body(msg)

\* _join_match's result ignored: READY is sent although the join was rejected.
join_match_rejected_ignored ==
    /\ out' = <<Plain("READY")>>
    /\ pc' = "_play_game"
    /\ rejected' = TRUE
    /\ UNCHANGED <<connected, state, in_match>>

\* ERROR in answer to TJOIN: _join_match returns False and run_tournament's
\* loop continues with the next read.
join_match_rejected ==
    /\ pc' = "run_tournament"
    /\ out' = <<>>
    /\ rejected' = TRUE
    /\ UNCHANGED <<connected, state, in_match>>

\* _join_match: a line read inside its recv_until.
JoinMatchRecv(msg) ==
    /\ pc = "_join_match"
    /\ line' = msg
    /\ UNCHANGED <<mode, pending_message, in_round, result>>
    /\ IF ~recv_until_accepts(msg, {"WELCOME", "ERROR"})
       THEN Stay /\ UNCHANGED <<state, in_match, rejected>>
       ELSE IF msg.kw = "WELCOME"
       THEN IF welcome_raises(msg)
            THEN Raise /\ out' = <<>> /\ UNCHANGED <<state, in_match, rejected>>
            ELSE /\ state' = welcome_state(msg)
                 /\ in_match' = TRUE
                 /\ send_ready
                 /\ UNCHANGED rejected
       ELSE join_match_rejected

\* _play_game: one pass of its loop for the line msg read by recv().
_play_game(msg) ==
    /\ line' = msg
    /\ in_round' = IF msg.kw = "ROUND_START" /\ ~handle_round_start_raises(msg)
                   THEN TRUE
                   ELSE IF msg.kw = "GAME_START" /\ Len(msg.parts) >= 2
                           /\ ~handle_game_start_raises(msg)
                   THEN FALSE
                   ELSE in_round
    /\ UNCHANGED <<mode, in_match, rejected, result>>
    /\ IF msg.kw = ""
       THEN Stay /\ UNCHANGED <<state, pending_message>>
       ELSE IF msg.kw \in {"TOURNAMENT_MATCH", "TOURNAMENT_COMPLETE"}
       THEN play_game_returns(msg) /\ UNCHANGED state
       ELSE IF msg.kw = "GAME_END"
       THEN play_game_returns(NoLine) /\ UNCHANGED state
       ELSE IF msg.kw = "GAME_START"
       THEN IF handle_game_start_raises(msg)
            THEN Raise /\ out' = <<>> /\ UNCHANGED <<state, pending_message>>
            ELSE state' = handle_game_start(state, msg) /\ Stay
                 /\ UNCHANGED pending_message
       ELSE IF msg.kw = "ROUND_START"
       THEN IF handle_round_start_raises(msg)
            THEN Raise /\ out' = <<>> /\ UNCHANGED <<state, pending_message>>
            ELSE state' = handle_round_start(state, msg) /\ Stay
                 /\ UNCHANGED pending_message
       ELSE IF msg.kw = "PLAYED"
       THEN state' = handle_played(state, msg) /\ Stay /\ UNCHANGED pending_message
       ELSE IF msg.kw = "HAND"
       THEN /\ state' = play_turn(observe_hand(state, msg))
            /\ out' = play_turn_sends(observe_hand(state, msg))
            /\ UNCHANGED <<pc, connected, pending_message>>
       ELSE \* ROUND_END, OK, WAITING, ...: logged, no action
            Stay /\ UNCHANGED <<state, pending_message>>

\* _play_game: a line read by its recv().
PlayGameRecv(msg) ==
    /\ pc = "_play_game"
    /\ msg.kw = "PLAYED" => state.turn < MaxTurn
    /\ msg.kw = "HAND" => Len(state.my_tableau) < MaxTableau
    /\ _play_game(msg)

\* _leave_game: a line read inside its recv_until.  On OK / ERROR it sets
\* self.state = None and returns to the top of run_tournament's loop, which
\* takes pending_message (if any) instead of reading.
LeaveGameRecv(msg) ==
    /\ pc = "_leave_game"
    /\ line' = msg
    /\ UNCHANGED <<mode, result>>
    /\ IF ~recv_until_accepts(msg, {"OK", "ERROR"})
       THEN Stay /\ UNCHANGED <<state, pending_message, in_match, rejected, in_round>>
       ELSE /\ state' = NoState
            /\ in_round' = FALSE
            /\ in_match' = FALSE
            /\ pending_message' = NoLine
            /\ IF pending_message # NoLine
               THEN run_tournament_body(pending_message)
               ELSE pc' = "run_tournament" /\ out' = <<>>
                    /\ UNCHANGED <<connected, rejected>>

\* recv(): readline() returns "" at end of stream, recv raises ConnectionError.
RecvEof ==
    /\ pc \in Reading
    /\ Raise
    /\ out' = <<>>
    /\ line' = NoLine
    /\ UNCHANGED <<mode, state, pending_message, in_match, rejected, in_round, result>>

\* KeyboardInterrupt while blocked in a read.
Interrupt ==
    /\ pc \in Reading
    /\ Interrupted
    /\ out' = <<>>
    /\ line' = NoLine
    /\ UNCHANGED <<mode, state, pending_message, in_match, rejected, in_round, result>>

-----------------------------------------------------------------------------
(* The lines the server may send in the model.                             *)

Hands ==
    { <<>>,
      <<"Chopsticks">>,
      <<"Wasabi", "Squid Nigiri">>,
      <<"Tempura", "Pudding">> }

Reveals ==
    { [p \in {"Alice"} |-> <<"Chopsticks">>],
      [p \in {"Alice", "Bob"} |->
          IF p = "Alice" THEN <<"Wasabi", "Squid Nigiri">> ELSE <<"Pudding">>] }

Lines ==
    { Msg("", <<>>),
      Msg("WELCOME", <<"g1", "0", "tok">>),
      Msg("WELCOME", <<"g1">>),
      Msg("ERROR", <<"no">>),
      Msg("OK", <<>>),
      Msg("GAME_START", <<"2">>),
      Msg("GAME_START", <<>>),
      Msg("GAME_START", <<"two">>),
      Msg("ROUND_START", <<"1">>),
      Msg("ROUND_START", <<"2">>),
      Msg("ROUND_START", <<>>),
      Msg("ROUND_END", <<"1", "{}">>),
      Msg("GAME_END", <<"{}", "[]">>),
      Msg("TOURNAMENT_WELCOME", <<"t1", "1/4", "tok">>),
      Msg("TOURNAMENT_JOINED", <<"t1", "Bob">>),
      Msg("TOURNAMENT_MATCH", <<"t1", "m1", "1", "Bob">>),
      Msg("TOURNAMENT_MATCH", <<"t1", "BYE", "1">>),
      Msg("TOURNAMENT_MATCH", <<"t1", "m2", "1", "BYE">>),
      Msg("TOURNAMENT_MATCH", <<"t1", "m1">>),
      Msg("TOURNAMENT_COMPLETE", <<"t1", "Bob">>) }
    \cup { HandMsg(h) : h \in Hands }
    \cup { PlayedMsg(r) : r \in Reveals }

-----------------------------------------------------------------------------
(* The specification.                                                      *)

\* run / run_tournament after connect() and the first command: JOIN is sent
\* by join_game, TOURNEY by _join_tournament.
Init ==
    /\ mode \in {"single", "tournament"}
    /\ pc = IF mode = "single" THEN "join_game" ELSE "_join_tournament"
    /\ connected = TRUE
    /\ state = NoState
    /\ pending_message = NoLine
    /\ line = NoLine
    /\ out = IF mode = "single"
             THEN <<Command("JOIN", -1, -1, game_id)>>
             ELSE <<Command("TOURNEY", -1, -1, tournament_id)>>
    /\ in_match = FALSE
    /\ rejected = FALSE
    /\ in_round = FALSE
    /\ result = NoResult

Next ==
    \/ \E msg \in Lines : JoinGameRecv(msg)
    \/ \E msg \in Lines : JoinTournamentRecv(msg)
    \/ \E msg \in Lines : TournamentRecv(msg)
    \/ \E msg \in Lines : JoinMatchRecv(msg)
    \/ \E msg \in Lines : PlayGameRecv(msg)
    \/ \E msg \in Lines : LeaveGameRecv(msg)
    \/ RecvEof
    \/ Interrupt

Spec == Init /\ [][Next]_vars

-----------------------------------------------------------------------------
(* The specification of one game: the per-game loop from the moment READY  *)
(* has been sent, over hands and reveals that make chopstick plays and     *)
(* repeated cards happen.                                                  *)

GameCards == {"Chopsticks", "Wasabi", "Squid Nigiri", "Sashimi", "Tempura", "Pudding"}

GameHands ==
    { <<>>,
      <<"Chopsticks">>,
      <<"Wasabi", "Squid Nigiri">>,
      <<"Sashimi", "Tempura", "Sashimi">> }

GameReveals ==
    { EmptyDict,
      [p \in {"Alice"} |-> <<"Chopsticks">>],
      [p \in {"Alice", "Bob"} |->
          IF p = "Alice" THEN <<"Wasabi", "Squid Nigiri">> ELSE <<"Pudding">>],
      [p \in {"Bob"} |-> <<"Tempura">>] }

GameLines ==
    { Msg("GAME_START", <<"2">>),
      Msg("ROUND_START", <<"1">>),
      Msg("ROUND_START", <<"4">>),
      Msg("ROUND_END", <<"1", "{}">>),
      Msg("GAME_END", <<"{}", "[]">>) }
    \cup { HandMsg(h) : h \in GameHands }
    \cup { PlayedMsg(r) : r \in GameReveals }

\* The WELCOME that answered JOIN.
GameWelcome == Msg("WELCOME", <<"g1", "0", "tok">>)

\* run after join_game returned True and READY was sent.
GameInit ==
    /\ mode = "single"
    /\ pc = "_play_game"
    /\ connected = TRUE
    /\ state = welcome_state(GameWelcome)
    /\ pending_message = NoLine
    /\ line = GameWelcome
    /\ out = <<Plain("READY")>>
    /\ in_match = FALSE
    /\ rejected = FALSE
    /\ in_round = FALSE
    /\ result = NoResult

\* _play_game: a line read by its recv(), under the bounds of GameSpec.
GameRecv(msg) ==
    /\ pc = "_play_game"
    /\ msg.kw = "PLAYED" => state.turn < GameMaxTurn
    /\ msg.kw = "HAND" => Len(state.my_tableau) < GameMaxTableau
    /\ _play_game(msg)

GameNext == \E msg \in GameLines : GameRecv(msg)

GameSpec == GameInit /\ [][GameNext]_vars

-----------------------------------------------------------------------------
(* The specification of the decision engine: choose_card, chopstick_combo, *)
(* should_grab_chopsticks, has_unused_wasabi and play_turn applied to a    *)
(* GameState drawn from bounded sets, the way run_tests builds one.        *)

\* The card names the decision rules test for.
EngineCards ==
    { "Sashimi", "Tempura", "Wasabi", "Squid Nigiri", "Salmon Nigiri", "Egg Nigiri",
      "Chopsticks", "Pudding", "Dumpling",
      "Maki Roll (3)", "Maki Roll (2)", "Maki Roll (1)" }

\* The cards of the combos: the two sets and Wasabi with its three Nigiri.
ComboCards ==
    { "Sashimi", "Tempura", "Wasabi", "Squid Nigiri", "Salmon Nigiri", "Egg Nigiri" }

\* The lists over S of at most n elements.
SeqsUpTo(S, n) == UNION { [1..k -> S] : k \in 0..n }

\* The pairs chopstick_combo looks for, as they may sit side by side in a hand.
ComboPairs ==
    { <<"Sashimi", "Sashimi">>, <<"Tempura", "Tempura">>,
      <<"Wasabi", "Squid Nigiri">>, <<"Wasabi", "Salmon Nigiri">>,
      <<"Wasabi", "Egg Nigiri">>, <<"Egg Nigiri", "Wasabi">> }

\* Hands: every hand of up to EngineMaxHand cards, every hand of up to
\* EngineMaxComboHand combo cards, and every hand made of two pairs.
EngineHands ==
    SeqsUpTo(EngineCards, EngineMaxHand)
        \cup SeqsUpTo(ComboCards, EngineMaxComboHand)
        \cup { a \o b : a \in ComboPairs, b \in ComboPairs }

\* n copies of card.
Copies(n, card) == [i \in 1..n |-> card]

\* Own tableaux: each count the rules test (Sashimi modulo 3 and exactly 1,
\* Tempura modulo 2 and exactly 1, Wasabi against Nigiri, Chopsticks,
\* Dumplings against 5), alone and together.
EngineTableaux ==
    { <<>>,
      Copies(1, "Sashimi"), Copies(2, "Sashimi"), Copies(3, "Sashimi"),
      Copies(4, "Sashimi"), Copies(5, "Sashimi"),
      Copies(1, "Tempura"), Copies(2, "Tempura"), Copies(3, "Tempura"),
      <<"Wasabi">>, <<"Squid Nigiri">>, <<"Wasabi", "Squid Nigiri">>,
      <<"Salmon Nigiri", "Wasabi">>, <<"Wasabi", "Wasabi", "Egg Nigiri">>,
      <<"Sashimi", "Sashimi", "Wasabi", "Tempura">>,
      <<"Sashimi", "Sashimi", "Tempura">>, <<"Wasabi", "Tempura">>,
      <<"Sashimi", "Tempura">>,
      <<"Chopsticks">>, <<"Chopsticks", "Sashimi">>, <<"Chopsticks", "Tempura">>,
      <<"Chopsticks", "Sashimi", "Tempura">>, <<"Chopsticks", "Sashimi", "Sashimi">>,
      <<"Chopsticks">> \o Copies(4, "Sashimi"), <<"Chopsticks">> \o Copies(3, "Tempura"),
      <<"Chopsticks", "Wasabi">>,
      Copies(4, "Dumpling"), Copies(5, "Dumpling"),
      <<"Pudding">> }

\* The GameState after WELCOME, GAME_START and ROUND_START with the fields
\* the decision functions read set to the drawn values.
EngineState(hand, my_tableau, all_tableaux, player_count, turn, next) ==
    [ welcome_state(GameWelcome) EXCEPT
        !.hand             = hand,
        !.player_count     = player_count,
        !.all_hands        = <<Some(hand), next>>,
        !.current_hand_ptr = 0,
        !.my_tableau       = my_tableau,
        !.all_tableaux     = all_tableaux,
        !.turn             = turn ]

\* Hands and own tableaux, with no tableau tracked and the next hand unseen.
TableStates ==
    \E hand \in EngineHands, t \in EngineTableaux :
        state = EngineState(hand, t, EmptyDict, 2, 1, None)

\* The next hand, seen or not, for a hand with and without Chopsticks and a
\* tableau with and without Chopsticks or a combo to complete.
LookaheadStates ==
    \E hand \in { <<"Chopsticks">>, <<"Pudding", "Chopsticks">>, <<"Pudding">>,
                  <<"Chopsticks", "Sashimi">> },
       t    \in { <<>>, <<"Chopsticks">>, <<"Sashimi", "Sashimi">> },
       next \in { None } \cup { Some(h) : h \in SeqsUpTo(ComboCards, EngineMaxNextHand) } :
        state = EngineState(hand, t, EmptyDict, 2, 1, next)

\* The tracked tableaux of the pudding race: Bob's and Carol's puddings,
\* with or without the client's own tableau among them.
PuddingTableaux(my_tableau) ==
    { [p \in P |-> IF p = "Alice" THEN my_tableau
                   ELSE IF p = "Bob" THEN Copies(b, "Pudding")
                   ELSE <<"Tempura">> \o Copies(c, "Pudding")] :
        P \in SUBSET {"Alice", "Bob", "Carol"},
        b \in 0..EngineMaxPudding, c \in 0..EngineMaxPudding }

\* The pudding race: player counts in and out of the table of choose_card,
\* every turn of the longest round, own and tracked Pudding counts.
PuddingStates ==
    \E hand \in { <<"Pudding">>, <<"Sashimi", "Pudding">>, <<"Sashimi">> },
       own \in 0..EngineMaxPudding,
       player_count \in {0, 2, 3, 4, 5},
       turn \in 1..EngineMaxTurn :
        \E tracked \in PuddingTableaux(Copies(own, "Pudding")) :
            state = EngineState(hand, Copies(own, "Pudding"), tracked, player_count, turn, None)

Returned(fn, value) == [fn |-> fn, value |-> value]

EngineInit ==
    /\ mode = "single"
    /\ pc = "_play_game"
    /\ connected = TRUE
    /\ (TableStates \/ LookaheadStates \/ PuddingStates)
    /\ pending_message = NoLine
    /\ line = HandMsg(state.hand)
    /\ out = <<>>
    /\ in_match = FALSE
    /\ rejected = FALSE
    /\ in_round = TRUE
    /\ result = NoResult

\* The value a decision function returned; the function changes nothing.
Apply(fn, value) ==
    /\ result' = Returned(fn, value)
    /\ UNCHANGED <<mode, pc, connected, state, pending_message, line, out,
                   in_match, rejected, in_round>>

\* Each decision function is applied once to the drawn state.
ApplyChooseCard ==
    /\ result.fn = "none"
    /\ Apply("choose_card", choose_card(state.hand, state))

ApplyChopstickCombo ==
    /\ result.fn = "none"
    /\ Apply("chopstick_combo", chopstick_combo(state.hand, state))

ApplyShouldGrabChopsticks ==
    /\ result.fn = "none"
    /\ Apply("should_grab_chopsticks", should_grab_chopsticks(state.hand, state))

ApplyHasUnusedWasabi ==
    /\ result.fn = "none"
    /\ Apply("has_unused_wasabi", has_unused_wasabi(state))

\* play_turn on the drawn state: the command it sends and the play it records.
ApplyPlayTurn ==
    /\ result.fn = "none"
    /\ result' = Returned("play_turn", play_turn_sends(state))
    /\ out' = play_turn_sends(state)
    /\ state' = play_turn(state)
    /\ UNCHANGED <<mode, pc, connected, pending_message, line, in_match, rejected,
                   in_round>>

EngineNext ==
    \/ ApplyChooseCard
    \/ ApplyChopstickCombo
    \/ ApplyShouldGrabChopsticks
    \/ ApplyHasUnusedWasabi
    \/ ApplyPlayTurn

EngineSpec == EngineInit /\ [][EngineNext]_vars

-----------------------------------------------------------------------------
(* The specification of the line decoders: parse_hand and parse_played     *)
(* applied to the text of a HAND or PLAYED line as recv() returns it.      *)

\* text[i - 1], the i-th character.
CharAt(text, i) == SubSeq(text, i, i)

\* text[k - 1:], the text from its k-th character on ("" past the end).
From(text, k) == IF k > Len(text) THEN "" ELSE SubSeq(text, k, Len(text))

\* text[:k], the first k characters.
UpTo(text, k) == IF k < 1 THEN "" ELSE SubSeq(text, 1, k)

\* \s and the characters str.strip() removes, on the lines of the model.
IsSpace(c) == c = " "

\* \d
IsDigit(c) == c \in {"0", "1", "2", "3", "4", "5", "6", "7", "8", "9"}

RECURSIVE lstrip(_)
lstrip(text) ==
    IF Len(text) > 0 /\ IsSpace(CharAt(text, 1)) THEN lstrip(From(text, 2)) ELSE text

RECURSIVE rstrip(_)
rstrip(text) ==
    IF Len(text) > 0 /\ IsSpace(CharAt(text, Len(text)))
    THEN rstrip(UpTo(text, Len(text) - 1)) ELSE text

\* str.strip()
strip(text) == rstrip(lstrip(text))

\* str.split(sep) for a separator of one character.
RECURSIVE split(_, _)
split(text, sep) ==
    LET at == { i \in 1..Len(text) : CharAt(text, i) = sep }
    IN  IF at = {} THEN <<text>>
        ELSE <<UpTo(text, Min(at) - 1)>> \o split(From(text, Min(at) + 1), sep)

\* The position past the run of digits that starts at position i (i itself
\* when no digit is there).
RECURSIVE DigitsEnd(_, _)
DigitsEnd(text, i) ==
    IF i <= Len(text) /\ IsDigit(CharAt(text, i)) THEN DigitsEnd(text, i + 1) ELSE i

\* The same for a run of whitespace.
RECURSIVE SpacesEnd(_, _)
SpacesEnd(text, i) ==
    IF i <= Len(text) /\ IsSpace(CharAt(text, i)) THEN SpacesEnd(text, i + 1) ELSE i

\* (\d+): matched at position i: the position past the colon, or 0 when it
\* does not match there.
MarkerEnd(text, i) ==
    LET e == DigitsEnd(text, i)
    IN  IF e > i /\ e <= Len(text) /\ CharAt(text, e) = ":" THEN e + 1 ELSE 0

Lookahead_at_any_space(text, e) ==
    \/ e = Len(text) + 1
    \/ SpacesEnd(text, e) > e

\* (?=\s+\d+:|$) at position e.
Lookahead(text, e) ==
    \/ e = Len(text) + 1
    \/ SpacesEnd(text, e) > e /\ MarkerEnd(text, SpacesEnd(text, e)) # 0

\* re.finditer(r"(\d+):(.*?)(?=\s+\d+:|$)", text) from position pos on: the
\* stripped group 2 of each match, leftmost match first, the lazy group
\* ending at the first position where the lookahead holds.
RECURSIVE finditer(_, _)
finditer(text, pos) ==
    LET starts == { i \in pos..Len(text) : MarkerEnd(text, i) # 0 }
    IN  IF starts = {} THEN <<>>
        ELSE LET j == MarkerEnd(text, Min(starts))
                 e == Min({ k \in j..(Len(text) + 1) : Lookahead(text, k) })
             IN  <<strip(IF e > j THEN SubSeq(text, j, e - 1) ELSE "")>>
                     \o finditer(text, e)

\* parse_hand
parse_hand(message) == finditer(strip(From(message, Len("HAND ") + 1)), 1)

\* reveals[key] = value
SetItem(dict, key, value) ==
    [k \in DOMAIN dict \cup {key} |-> IF k = key THEN value ELSE dict[k]]

\* [c.strip() for c in cards_str.split(",") if c.strip()]
RECURSIVE StrippedNonEmpty(_)
StrippedNonEmpty(pieces) ==
    IF pieces = <<>> THEN <<>>
    ELSE (IF strip(Head(pieces)) # "" THEN <<strip(Head(pieces))>> ELSE <<>>)
             \o StrippedNonEmpty(Tail(pieces))

\* The loop of parse_played over the entries not yet visited.
RECURSIVE parse_entries(_, _)
parse_entries(reveals, entries) ==
    IF entries = <<>> THEN reveals
    ELSE LET entry == strip(Head(entries))
             colon == { i \in 1..Len(entry) : CharAt(entry, i) = ":" }
         IN  IF entry = "" \/ colon = {} THEN parse_entries(reveals, Tail(entries))
             ELSE LET name      == UpTo(entry, Min(colon) - 1)
                      cards_str == From(entry, Min(colon) + 1)
                  IN  parse_entries(
                          SetItem(reveals, strip(name),
                                  StrippedNonEmpty(split(cards_str, ","))),
                          Tail(entries))

parse_played_one_entry(message) ==
    parse_entries(EmptyDict, <<strip(From(message, Len("PLAYED ") + 1))>>)

\* parse_played
parse_played(message) ==
    parse_entries(EmptyDict, split(strip(From(message, Len("PLAYED ") + 1)), ";"))

\* A line on the wire: the hand or the reveals it lists and its text.
Wire(msg, text) ==
    [kw |-> msg.kw, parts |-> msg.parts, hand |-> msg.hand, reveals |-> msg.reveals,
     text |-> text]

\* Card names with and without spaces and digits.
ParseCards == {"Tempura", "Salmon Nigiri", "Maki Roll (3)"}

\* The index of a card as the server writes it.
IndexText(i) == <<"0", "1", "2", "3", "4", "5", "6", "7", "8", "9">>[i + 1]

\* "HAND 0:Tempura 1:Salmon Nigiri ..." with gap between the tokens.
RECURSIVE HandText(_, _, _)
HandText(cards, k, gap) ==
    IF k > Len(cards) THEN ""
    ELSE gap \o IndexText(k - 1) \o ":" \o cards[k] \o HandText(cards, k + 1, gap)

WireHand(cards, gap) == Wire(HandMsg(cards), "HAND" \o HandText(cards, 1, gap))

\* The HAND lines: every hand of up to ParseMaxHand cards, the tokens one
\* or two spaces apart.
WireHands ==
    { WireHand(cards, gap) : cards \in SeqsUpTo(ParseCards, ParseMaxHand),
                             gap \in {" ", "  "} }

\* One group of a PLAYED line: a player with one card or two, or a group
\* that names nobody (empty, or without a colon).
Groups ==
    { [name |-> n, cards |-> c] :
        n \in {"Alice", "Bob"},
        c \in { <<"Tempura">>, <<"Squid Nigiri">>, <<"Squid Nigiri", "Tempura">>,
                <<"Maki Roll (3)", "Salmon Nigiri">> } }
    \cup { [name |-> "", cards |-> <<>>], [name |-> "WAITING", cards |-> <<>>] }

Names(group) == IF group.cards = <<>> THEN {} ELSE {group.name}

\* "Alice:Squid Nigiri,Tempura" with comma between the cards.
GroupText(group, comma) ==
    IF group.cards = <<>> THEN group.name
    ELSE group.name \o ":" \o group.cards[1]
             \o (IF Len(group.cards) > 1 THEN comma \o group.cards[2] ELSE "")

RECURSIVE PlayedText(_, _, _, _)
PlayedText(groups, k, semi, comma) ==
    IF k > Len(groups) THEN ""
    ELSE (IF k > 1 THEN semi ELSE "") \o GroupText(groups[k], comma)
             \o PlayedText(groups, k + 1, semi, comma)

\* The reveals a list of groups with distinct names carries.
RevealsOf(groups) ==
    [p \in UNION { Names(groups[k]) : k \in DOMAIN groups } |->
        (CHOOSE g \in { groups[k] : k \in DOMAIN groups } : Names(g) = {p}).cards]

WirePlayed(groups, semi, comma) ==
    Wire(PlayedMsg(RevealsOf(groups)),
         IF groups = <<>> THEN "PLAYED"
         ELSE "PLAYED " \o PlayedText(groups, 1, semi, comma))

\* The PLAYED lines: up to ParseMaxGroups groups, no player named twice.
WirePlayeds ==
    { WirePlayed(groups, semi, comma) :
        groups \in { gs \in SeqsUpTo(Groups, ParseMaxGroups) :
                       \A a, b \in DOMAIN gs :
                           a # b => Names(gs[a]) \cap Names(gs[b]) = {} },
        semi \in {";", "; "}, comma \in {",", ", "} }

ParseInit ==
    /\ mode = "single"
    /\ pc = "_play_game"
    /\ connected = TRUE
    /\ state = welcome_state(GameWelcome)
    /\ pending_message = NoLine
    /\ line \in WireHands \cup WirePlayeds
    /\ out = <<>>
    /\ in_match = FALSE
    /\ rejected = FALSE
    /\ in_round = FALSE
    /\ result = NoResult

\* parse_hand applied to the text of the HAND line read.
ApplyParseHand ==
    /\ result.fn = "none"
    /\ line.kw = "HAND"
    /\ Apply("parse_hand", parse_hand(line.text))

\* parse_played applied to the text of the PLAYED line read.
ApplyParsePlayed ==
    /\ result.fn = "none"
    /\ line.kw = "PLAYED"
    /\ Apply("parse_played", parse_played(line.text))

ParseNext ==
    \/ ApplyParseHand
    \/ ApplyParsePlayed

ParseSpec == ParseInit /\ [][ParseNext]_vars

-----------------------------------------------------------------------------
(* The specification of one well-formed round: GAME_START n for 2 to 5     *)
(* players, ROUND_START 1, then HAND and PLAYED in turn for the 10, 9, 8   *)
(* or 7 turns of the round, each PLAYED revealing the card just played.    *)

RoundHands == { <<"Tempura", "Sashimi">>, <<"Pudding", "Dumpling">> }

\* The PLAYED line of a turn: the client's own play and one of Bob's.
RoundReveal(s) ==
    PlayedMsg([p \in {"Alice", "Bob"} |->
                  IF p = "Alice" THEN <<s.last_card_played>> ELSE <<"Tempura">>])

\* The lines the server may send next in a well-formed round.
RoundLines ==
    IF line.kw = "WELCOME" THEN { Msg("GAME_START", <<n>>) : n \in {"2", "3", "4", "5"} }
    ELSE IF line.kw = "GAME_START" THEN { Msg("ROUND_START", <<"1">>) }
    ELSE IF line.kw = "HAND" THEN { RoundReveal(state) }
    ELSE IF state.turn <= total_turns(state.player_count)
        THEN { HandMsg(h) : h \in RoundHands }
    ELSE {}

\* _play_game: a line of the round read by its recv().
RoundRecv(msg) ==
    /\ pc = "_play_game"
    /\ _play_game(msg)

RoundNext == \E msg \in RoundLines : RoundRecv(msg)

RoundSpec == GameInit /\ [][RoundNext]_vars

-----------------------------------------------------------------------------
(* Properties.                                                             *)

Sent(cmd) == \E k \in 1..Len(out) : out[k].cmd = cmd

\* A TOURNAMENT_MATCH line with all its fields whose match token or
\* opponent is BYE.
IsBye(msg) ==
    /\ msg.kw = "TOURNAMENT_MATCH"
    /\ Len(msg.parts) >= 4
    /\ (msg.parts[3] = "BYE" \/ (Len(msg.parts) > 4 /\ msg.parts[5] = "BYE"))

\* A tournament line that carries every field run_tournament reads.
WellFormedTournamentLine(msg) ==
    \/ msg.kw = "TOURNAMENT_MATCH" /\ Len(msg.parts) >= 4
    \/ msg.kw = "TOURNAMENT_COMPLETE" /\ Len(msg.parts) >= 3

\* C1: in tournament mode a TOURNAMENT_MATCH or TOURNAMENT_COMPLETE line read
\* while a match is in progress is only buffered: the client stays in the
\* per-game loop, keeps the line for later and sends nothing (neither LEAVE
\* nor TJOIN) until that match's GAME_END is read.
C1_TournamentLineBufferedUntilGameEnd ==
    [][(mode = "tournament" /\ pc = "_play_game" /\ WellFormedTournamentLine(line'))
        => (pc' = "_play_game" /\ pending_message' = line' /\ out' = <<>>)]_vars

\* C2: no two matches are active at once: a TJOIN is sent, and the client
\* waits for its answer, only when no joined match is left unacknowledged
\* (every WELCOME'd match has had its LEAVE answered by OK or ERROR).
C2_NoTwoMatchesActive ==
    /\ Sent("TJOIN") => ~in_match
    /\ pc = "_join_match" => (~in_match /\ state = NoState)
    /\ in_match => (state # NoState /\ pc \in {"_play_game", "_leave_game"} \cup Ended)

\* C2 witness: a TJOIN sent right after the LEAVE of an earlier match was
\* answered.
C2_Witness ==
    /\ pc = "_join_match"
    /\ line.kw = "OK"
    /\ out = <<Command("TJOIN", -1, -1, "m1")>>
    /\ ~in_match

\* C3: no inbound line, whatever its form and whatever the client is waiting
\* for, makes the run fail: the run fails only when a read yields end of
\* stream.
C3_NoLineAbortsTheLoop == pc = "failed" => line = NoLine

\* C4: between two consecutive reads the client sends at most one command.
C4_AtMostOneCommandPerRead == Len(out) <= 1

\* C4 witness: the buffered tournament line is processed in the step that
\* reads the answer to LEAVE, and that step sends one command, the TJOIN.
C4_Witness ==
    /\ line.kw \in {"OK", "ERROR"}
    /\ Len(out) = 1
    /\ out[1].cmd = "TJOIN"

\* C5: wherever the client is blocked in a read, end of stream and an
\* interrupt can both occur; after either the run has ended, the connection
\* is closed, the step has sent nothing and no further step is possible.
C5_EofOrInterruptEndsTheRun ==
    /\ pc \in Reading => (connected /\ ENABLED RecvEof /\ ENABLED Interrupt)
    /\ pc \in {"failed", "interrupted"} => (~connected /\ out = <<>> /\ ~ENABLED Next)

\* C5 witness: the stream ended while a tournament match was being left,
\* with a buffered line still pending.
C5_Witness ==
    /\ pc = "failed"
    /\ line = NoLine
    /\ in_match
    /\ pending_message # NoLine
    /\ ~connected

\* C6: READY is sent exactly once per join attempt answered by WELCOME, in
\* the step that reads that WELCOME: the per-game loop is entered only by a
\* step that sends READY alone, no READY is sent inside the per-game loop,
\* and PLAY / CHOPSTICKS are sent only in answer to a HAND read inside it.
\* A join attempt answered by ERROR sends no READY, creates no session and
\* does not start the per-game loop.
C6_ReadyOncePerWelcome ==
    /\ [](Sent("READY") =>
            (out = <<Plain("READY")>> /\ line.kw = "WELCOME" /\ pc = "_play_game"
             /\ state = welcome_state(line)))
    /\ []((Sent("PLAY") \/ Sent("CHOPSTICKS")) => (line.kw = "HAND" /\ pc = "_play_game"))
    /\ [][(pc \in {"join_game", "_join_match"} /\ line'.kw = "WELCOME"
           /\ ~welcome_raises(line'))
          => (out' = <<Plain("READY")>> /\ pc' = "_play_game")]_vars
    /\ [][(pc # "_play_game" /\ pc' = "_play_game") => out' = <<Plain("READY")>>]_vars
    /\ [][(pc \in {"join_game", "_join_match"} /\ line'.kw = "ERROR")
          => (out' = <<>> /\ state' = NoState /\ pc' # "_play_game")]_vars

\* C6 witness: READY sent in answer to the WELCOME of a tournament match.
C6_Witness ==
    /\ mode = "tournament"
    /\ out = <<Plain("READY")>>
    /\ line.kw = "WELCOME"
    /\ pc = "_play_game"

\* C7 (as claimed): whenever a join attempt (JOIN, TOURNEY or TJOIN) is
\* answered by ERROR the run ends: nothing is sent, the client stops reading
\* and the connection is closed.
C7_RejectedJoinEndsTheRun ==
    [][(pc \in {"join_game", "_join_tournament", "_join_match"} /\ line'.kw = "ERROR")
        => (pc' = "done" /\ ~connected' /\ out' = <<>>)]_vars

\* C7 (amended): a JOIN or TOURNEY answered by ERROR ends the run (nothing
\* sent, no further read, connection closed); a TJOIN answered by ERROR does
\* not: the client sends nothing, creates no session, stays connected and
\* goes back to reading the next tournament line.
C7_RejectedJoinAmended ==
    /\ [][(pc \in {"join_game", "_join_tournament"} /\ line'.kw = "ERROR")
          => (pc' = "done" /\ ~connected' /\ out' = <<>>)]_vars
    /\ [][(pc = "_join_match" /\ line'.kw = "ERROR")
          => (pc' = "run_tournament" /\ connected' /\ out' = <<>>
              /\ state' = NoState /\ ~in_match')]_vars
    /\ [](pc = "done" => (~connected /\ ~ENABLED Next))
    /\ []((rejected /\ pc \notin Ended)
            => (mode = "tournament" /\ pc = "run_tournament" /\ state = NoState))

\* C7 witness: the tournament loop reading again right after a TJOIN was
\* answered by ERROR.
C7_Witness ==
    /\ pc = "run_tournament"
    /\ rejected
    /\ line.kw = "ERROR"
    /\ connected
    /\ state = NoState

\* C8: in single-game mode, after a successful join, the run returns only
\* when GAME_END has been read: every other line leaves the per-game loop
\* running.
C8_SingleGameEndsOnlyOnGameEnd ==
    (mode = "single" /\ pc = "done" /\ state # NoState) => line.kw = "GAME_END"

\* C9: a TOURNAMENT_MATCH whose token or opponent is BYE never makes the
\* client send anything (no TJOIN, READY or LEAVE).
C9_ByeSendsNothing == IsBye(line) => out = <<>>

\* C10: after ROUND_START n is handled, round = n, turn = 1, own tableau is
\* empty, no player's tableau is tracked, last-played-card is none, the
\* last reveal set is empty, the cursor is 0 and every slot of the rotation
\* buffer is unknown.
C10_RoundStartResets ==
    (pc = "_play_game" /\ line.kw = "ROUND_START") =>
        /\ state.round = int(line.parts[2])
        /\ state.turn = 1
        /\ state.my_tableau = <<>>
        /\ state.all_tableaux = EmptyDict
        /\ state.last_card_played = "None"
        /\ state.last_turn_reveals = EmptyDict
        /\ state.current_hand_ptr = 0
        /\ \A i \in 1..Len(state.all_hands) : state.all_hands[i] = None

\* C10 witness: ROUND_START 2 handled after a round in which a hand was
\* observed and played from (the working hand, which ROUND_START leaves
\* alone, is still there).
C10_Witness ==
    /\ pc = "_play_game"
    /\ line = Msg("ROUND_START", <<"2">>)
    /\ state.round = 2
    /\ state.hand # <<>>
    /\ Len(state.all_hands) = 2

-----------------------------------------------------------------------------
(* Properties of the game state (GameSpec).                                *)

\* The step that led to the current state handled a line with keyword kw in
\* the per-game loop, without raising.
Handled(kw) == line.kw = kw /\ pc = "_play_game"

\* The slot of the rotation buffer under the cursor exists.
CursorInBuffer(s) == s.current_hand_ptr < Len(s.all_hands)

\* new is old without one occurrence of card, the other cards in their order.
RemovedOne(old, new, card) ==
    \E k \in 1..Len(old) :
        /\ old[k] = card
        /\ new = SubSeq(old, 1, k - 1) \o SubSeq(old, k + 1, Len(old))

IsPrefix(a, b) == Len(a) <= Len(b) /\ SubSeq(b, 1, Len(a)) = a

\* C11 (as claimed): right after a ROUND_START is handled the rotation
\* buffer has exactly player_count slots, all unknown.
C11_BufferHasPlayerCountSlots ==
    Handled("ROUND_START") =>
        /\ Len(state.all_hands) = state.player_count
        /\ \A i \in 1..Len(state.all_hands) : state.all_hands[i] = None

\* C11 (amended): right after a ROUND_START is handled the rotation buffer
\* has max(player_count, 1) slots, all unknown: player_count slots when the
\* player count is known (at least 1), one slot while it is still 0.
C11_BufferHasAtLeastOneSlot ==
    Handled("ROUND_START") =>
        /\ Len(state.all_hands) = IF state.player_count >= 1
                                  THEN state.player_count ELSE 1
        /\ \A i \in 1..Len(state.all_hands) : state.all_hands[i] = None

\* C11 witness: a ROUND_START handled in a two-player game whose previous
\* round had populated the buffer and advanced the cursor.
C11_Witness ==
    /\ Handled("ROUND_START")
    /\ state.player_count = 2
    /\ Len(state.all_hands) = 2
    /\ state.hand = <<"Sashimi", "Tempura", "Sashimi">>
    /\ state.current_hand_ptr = 0

\* C12: while player_count is 0 no ROUND_START, HAND or PLAYED makes the run
\* fail; right after ROUND_START the rotation buffer is one unknown slot;
\* every HAND that lists at least one card is answered by exactly one play
\* command (PLAY or CHOPSTICKS) whose indices lie inside that hand.
C12_UnknownPlayerCountDoesNotCrash ==
    state.player_count = 0 =>
        /\ pc # "failed"
        /\ Handled("ROUND_START") => state.all_hands = <<None>>
        /\ (line.kw = "HAND" /\ line.hand # <<>>) =>
              /\ pc = "_play_game"
              /\ Len(out) = 1
              /\ \/ /\ out[1].cmd = "PLAY"
                    /\ out[1].idx1 \in 0..(Len(line.hand) - 1)
                 \/ /\ out[1].cmd = "CHOPSTICKS"
                    /\ out[1].idx1 \in 0..(Len(line.hand) - 1)
                    /\ out[1].idx2 \in 0..(Len(line.hand) - 1)
        /\ Handled("PLAYED") => out = <<>>

\* C12 witness: with player_count still 0, a HAND answered by a play after
\* a ROUND_START and two PLAYED, the cursor beyond the single slot.
C12_Witness ==
    /\ state.player_count = 0
    /\ Handled("HAND")
    /\ Len(out) = 1
    /\ state.all_hands = <<None>>
    /\ state.current_hand_ptr = 2
    /\ state.round = 4

\* C13: recording a play of card c changes the rotation buffer at most at
\* the slot under the cursor: a populated slot that contains c loses one
\* occurrence of c, the other cards keeping their order; an unknown slot, a
\* slot without c, or a cursor outside the buffer leaves the buffer as it
\* is.  Checked for every card in every reachable game state, and on the
\* plays the client makes: after a single-card play the slot under the
\* cursor is the observed hand without one occurrence of the played card,
\* and handling a HAND changes no other slot.
C13_RecordPlayTouchesCursorSlotOnly ==
    /\ [](state # NoState =>
            \A c \in GameCards :
                LET ptr    == state.current_hand_ptr
                    before == state.all_hands
                    after  == _record_play(state, c).all_hands
                IN  /\ Len(after) = Len(before)
                    /\ \A i \in 1..Len(before) : i # ptr + 1 => after[i] = before[i]
                    /\ CursorInBuffer(state) =>
                          IF before[ptr + 1].known /\ In(c, before[ptr + 1].cards)
                          THEN /\ after[ptr + 1].known
                               /\ RemovedOne(before[ptr + 1].cards,
                                             after[ptr + 1].cards, c)
                          ELSE after[ptr + 1] = before[ptr + 1])
    /\ []((Handled("HAND") /\ Sent("PLAY") /\ CursorInBuffer(state)) =>
            LET slot == state.all_hands[state.current_hand_ptr + 1]
            IN  /\ slot.known
                /\ RemovedOne(line.hand, slot.cards, line.hand[out[1].idx1 + 1]))
    /\ [][(pc = "_play_game" /\ line'.kw = "HAND") =>
            /\ Len(state'.all_hands) = Len(state.all_hands)
            /\ \A i \in 1..Len(state.all_hands) :
                  i # state.current_hand_ptr + 1 =>
                      state'.all_hands[i] = state.all_hands[i]]_vars

\* C13 witness: the second hand of a round, holding Sashimi twice, after the
\* first Sashimi was played from it: the slot under the cursor kept the
\* other two cards in order and the first slot was left alone.
C13_Witness ==
    /\ Handled("HAND")
    /\ out = <<Command("PLAY", 0, -1, "")>>
    /\ line.hand = <<"Sashimi", "Tempura", "Sashimi">>
    /\ state.current_hand_ptr = 1
    /\ Len(state.all_hands) = 2
    /\ state.all_hands[2] = Some(<<"Tempura", "Sashimi">>)
    /\ state.all_hands[1] = Some(<<"Squid Nigiri">>)

\* The tableau tracked for player p ([] when p has no key in all_tableaux).
Tracked(s, p) == IF p \in DOMAIN s.all_tableaux THEN s.all_tableaux[p] ELSE <<>>

\* C14: handling a PLAYED message appends, for every player it names, that
\* player's revealed cards in their listed order to the end of the player's
\* tracked tableau (created when the player was not tracked), sets the
\* last reveal set to the parsed map, and increases turn and the rotation
\* cursor by exactly 1 each, whatever the reveal contains.
C14_PlayedAppendsReveals ==
    [][(pc = "_play_game" /\ line'.kw = "PLAYED") =>
        /\ \A p \in DOMAIN line'.reveals :
              /\ p \in DOMAIN state'.all_tableaux
              /\ state'.all_tableaux[p] = Tracked(state, p) \o line'.reveals[p]
        /\ state'.last_turn_reveals = line'.reveals
        /\ state'.turn = state.turn + 1
        /\ state'.current_hand_ptr = state.current_hand_ptr + 1]_vars

\* C14 witness: a two-card reveal appended after an earlier reveal of the
\* same player, and a tableau created for a player seen for the first time.
C14_Witness ==
    /\ Handled("PLAYED")
    /\ state.last_turn_reveals =
          [p \in {"Alice", "Bob"} |->
              IF p = "Alice" THEN <<"Wasabi", "Squid Nigiri">> ELSE <<"Pudding">>]
    /\ state.all_tableaux =
          [p \in {"Alice", "Bob"} |->
              IF p = "Alice" THEN <<"Chopsticks", "Wasabi", "Squid Nigiri">>
              ELSE <<"Pudding">>]
    /\ state.turn = 3
    /\ state.current_hand_ptr = 2

\* C15: when the client answers hand h with CHOPSTICKS i j, both plays are
\* recorded: own tableau ends with h[i], h[j], and the rotation-buffer slot
\* under the cursor is h without one occurrence of h[i] and one of h[j].
C15_ChopstickPlayRecordsBoth ==
    (Handled("HAND") /\ Sent("CHOPSTICKS")) =>
        LET h  == line.hand
            ci == h[out[1].idx1 + 1]
            cj == h[out[1].idx2 + 1]
            t  == state.my_tableau
        IN  /\ Len(t) >= 2
            /\ t[Len(t) - 1] = ci
            /\ t[Len(t)] = cj
            /\ CursorInBuffer(state) =>
                  state.all_hands[state.current_hand_ptr + 1]
                      = Some(Remove(Remove(h, ci), cj))

C17_ChopsticksStayOutAfterReveal ==
    [][(/\ pc = "_play_game"
        /\ line.kw = "HAND"
        /\ Sent("CHOPSTICKS")
        /\ ~In("Chopsticks", state.my_tableau)
        /\ line'.kw = "PLAYED"
        /\ state.player_name \in DOMAIN line'.reveals
        /\ line'.reveals[state.player_name]
              = <<line.hand[out[1].idx1 + 1], line.hand[out[1].idx2 + 1]>>)
       => ~In("Chopsticks", state'.my_tableau)]_vars

\* C18 (as claimed): between two ROUND_STARTs every tracked tableau only
\* grows: over any step that is not a ROUND_START, own tableau and every
\* player's tableau in the map are prefixes of their next values, and no
\* key leaves the map.
C18_TableauxOnlyGrow ==
    [][(pc = "_play_game" /\ line'.kw # "ROUND_START") =>
        /\ IsPrefix(state.my_tableau, state'.my_tableau)
        /\ \A p \in DOMAIN state.all_tableaux :
              /\ p \in DOMAIN state'.all_tableaux
              /\ IsPrefix(state.all_tableaux[p], state'.all_tableaux[p])]_vars

\* C18 (amended): between two ROUND_STARTs every player's tableau in the map
\* only grows and no key leaves the map; own tableau grows over every step
\* except a ROUND_START, a two-card chopstick play (which takes the
\* Chopsticks card out of it) and a PLAYED handled while the client's name
\* is tracked (which replaces it by the tracked tableau).
C18_TrackedTableauxOnlyGrow ==
    /\ [][(pc = "_play_game" /\ line'.kw # "ROUND_START") =>
            \A p \in DOMAIN state.all_tableaux :
                /\ p \in DOMAIN state'.all_tableaux
                /\ IsPrefix(state.all_tableaux[p], state'.all_tableaux[p])]_vars
    /\ [][(/\ pc = "_play_game"
           /\ line'.kw # "ROUND_START"
           /\ ~(line'.kw = "HAND" /\ \E k \in 1..Len(out') : out'[k].cmd = "CHOPSTICKS")
           /\ ~(line'.kw = "PLAYED"
                /\ state.player_name \in DOMAIN state'.all_tableaux)) =>
            IsPrefix(state.my_tableau, state'.my_tableau)]_vars

\* C18 witness: a PLAYED naming only Bob, handled when Alice was tracked:
\* Alice's key and cards are still there and Bob's tableau has grown.
C18_Witness ==
    /\ Handled("PLAYED")
    /\ DOMAIN line.reveals = {"Bob"}
    /\ state.all_tableaux =
          [p \in {"Alice", "Bob"} |->
              IF p = "Alice" THEN <<"Wasabi", "Squid Nigiri">>
              ELSE <<"Pudding", "Tempura">>]

\* No slot above the cursor is populated.
NoneAboveCursor(s) ==
    \A i \in 1..Len(s.all_hands) :
        i > s.current_hand_ptr + 1 => ~s.all_hands[i].known

\* Every slot below the cursor is populated.
AllBelowCursor(s) ==
    \A i \in 1..Len(s.all_hands) :
        i < s.current_hand_ptr + 1 => s.all_hands[i].known

\* No populated slot follows an unknown one.
PopulatedInOrder(s) ==
    \A i \in 1..(Len(s.all_hands) - 1) :
        s.all_hands[i + 1].known => s.all_hands[i].known

\* C19 (as claimed): after any sequence of ROUND_START, HAND and PLAYED the
\* slots of the rotation buffer are populated in index order.
C19_SlotsPopulatedInOrder ==
    (state # NoState /\ in_round) => PopulatedInOrder(state)

\* C19 (amended): after any sequence of ROUND_START, HAND and PLAYED no slot
\* above the cursor is populated, and the slots are populated in index
\* order as long as every PLAYED was handled with the slot under the cursor
\* populated (a HAND was observed in that turn): every step of a round
\* other than a PLAYED that finds the cursor's slot unknown keeps all slots
\* below the cursor populated, and while they are, no populated slot
\* follows an unknown one.
C19_SlotsInOrderWhenHandPrecedesPlayed ==
    /\ [](state # NoState => NoneAboveCursor(state))
    /\ [][(/\ pc = "_play_game"
           /\ in_round'
           /\ AllBelowCursor(state)
           /\ ~(/\ line'.kw = "PLAYED"
                /\ CursorInBuffer(state)
                /\ ~state.all_hands[state.current_hand_ptr + 1].known)) =>
            AllBelowCursor(state')]_vars
    /\ []((state # NoState /\ AllBelowCursor(state)) => PopulatedInOrder(state))

\* C19 witness: both slots of a two-player round populated in order, the
\* second HAND observed after the PLAYED that followed the first.
C19_Witness ==
    /\ Handled("HAND")
    /\ state.current_hand_ptr = 1
    /\ Len(state.all_hands) = 2
    /\ state.all_hands[1].known
    /\ state.all_hands[2].known
    /\ in_round
    /\ state.round = 4

-----------------------------------------------------------------------------
(* Properties of the decision engine.                                      *)

\* The decision function fn has been applied to the drawn state.
Applied(fn) == result.fn = fn

Holds(cards, card) == \E i \in DOMAIN cards : cards[i] = card

CardCount(cards, card) == Cardinality({ i \in DOMAIN cards : cards[i] = card })

\* The 0-based position of the first card of that name.
FirstAt(cards, card) == Min({ i \in DOMAIN cards : cards[i] = card }) - 1

NigiriCards == {"Egg Nigiri", "Salmon Nigiri", "Squid Nigiri"}

NigiriCount(cards) == Cardinality({ i \in DOMAIN cards : cards[i] \in NigiriCards })

UnusedWasabi(tableau) == CardCount(tableau, "Wasabi") > NigiriCount(tableau)

\* The card that completes a combo, in the order of precedence, or "" when
\* the hand completes none.
ComboCard(hand, tableau) ==
    IF CardCount(tableau, "Sashimi") % 3 = 2 /\ Holds(hand, "Sashimi") THEN "Sashimi"
    ELSE IF UnusedWasabi(tableau) /\ Holds(hand, "Squid Nigiri") THEN "Squid Nigiri"
    ELSE IF UnusedWasabi(tableau) /\ Holds(hand, "Salmon Nigiri") THEN "Salmon Nigiri"
    ELSE IF CardCount(tableau, "Tempura") % 2 = 1 /\ Holds(hand, "Tempura") THEN "Tempura"
    ELSE IF UnusedWasabi(tableau) /\ Holds(hand, "Egg Nigiri") THEN "Egg Nigiri"
    ELSE ""

\* C21: whenever the hand completes a combo, choose_card returns the index
\* of the first card of the highest combo in the order Sashimi (tableau
\* count 2 modulo 3), Squid on Wasabi, Salmon on Wasabi, Tempura (tableau
\* count 1 modulo 2), Egg on Wasabi, whatever else the hand holds.
C21_CombosComeFirst ==
    (Applied("choose_card") /\ ComboCard(state.hand, state.my_tableau) # "")
        => result.value = FirstAt(state.hand, ComboCard(state.hand, state.my_tableau))

\* Every combo is open and the hand holds Tempura, Squid Nigiri and Sashimi
\* in that order: the Sashimi at index 2 is chosen.
C21_Witness ==
    /\ Applied("choose_card")
    /\ state.my_tableau = <<"Sashimi", "Sashimi", "Wasabi", "Tempura">>
    /\ state.hand = <<"Tempura", "Squid Nigiri", "Sashimi">>
    /\ result.value = 2

\* The case of C22: choose_card applied to the hand Wasabi, Squid Nigiri
\* with no unused Wasabi and no Chopsticks in own tableau and no combo to
\* complete.
WasabiSquidCase ==
    /\ Applied("choose_card")
    /\ state.hand = <<"Wasabi", "Squid Nigiri">>
    /\ ~UnusedWasabi(state.my_tableau)
    /\ ~Holds(state.my_tableau, "Chopsticks")
    /\ ComboCard(state.hand, state.my_tableau) = ""

\* C22 as claimed: for the hand Wasabi, Squid Nigiri with no unused Wasabi,
\* no Chopsticks and no combo to complete, choose_card returns the index of
\* Wasabi.
C22_WasabiBeforeLoneNigiri ==
    WasabiSquidCase => result.value = FirstAt(state.hand, "Wasabi")

\* C22 amended: in that case choose_card returns the index of Squid Nigiri:
\* one Nigiri card in hand is short of the two the Wasabi rule asks for, so
\* the plain Nigiri rule fires.
C22_LoneNigiriBeforeWasabi ==
    WasabiSquidCase => result.value = FirstAt(state.hand, "Squid Nigiri")

C22_Witness ==
    /\ WasabiSquidCase
    /\ state.my_tableau = <<"Sashimi", "Tempura">>
    /\ result.value = 1

\* The turns of a round by player count (0 for a count outside the table).
TurnsInRound(player_count) ==
    CASE player_count = 2 -> 10
      [] player_count = 3 -> 9
      [] player_count = 4 -> 8
      [] player_count = 5 -> 7
      [] OTHER -> 0

\* The Pudding counts of the tracked tableaux.
TrackedPuddings(s) ==
    { CardCount(s.all_tableaux[p], "Pudding") : p \in DOMAIN s.all_tableaux }

\* The next hand has been seen and holds a pair worth Chopsticks.
NextHandPromises(s) ==
    /\ s.current_hand_ptr + 2 <= Len(s.all_hands)
    /\ s.all_hands[s.current_hand_ptr + 2].known
    /\ LET next == s.all_hands[s.current_hand_ptr + 2].cards
       IN  \/ Holds(next, "Wasabi") /\ NigiriCount(next) >= 1
           \/ CardCount(next, "Sashimi") >= 2
           \/ CardCount(next, "Tempura") >= 2

\* The Chopsticks rule of choose_card fires.
ChopsticksRuleFires(s) ==
    /\ Holds(s.hand, "Chopsticks")
    /\ ~Holds(s.my_tableau, "Chopsticks")
    /\ NextHandPromises(s)

\* Behind the leader with turns enough to pass them, or at or below the
\* last (some tableau is tracked).
PuddingRace(s) ==
    LET own        == CardCount(s.my_tableau, "Pudding")
        most       == Max(TrackedPuddings(s))
        least      == Min(TrackedPuddings(s))
        turns_left == TurnsInRound(s.player_count) - s.turn
    IN  (own < most /\ own + turns_left > most) \/ own <= least

\* The Pudding rule of choose_card fires.
PuddingRuleFires(s) ==
    /\ TrackedPuddings(s) # {}
    /\ Holds(s.hand, "Pudding")
    /\ PuddingRace(s)

\* The ladder of the rules below the Pudding rule, best first: the card to
\* play and the condition on the hand and own tableau.
Ladder(hand, tableau) ==
    << [card |-> "Wasabi",        when |-> NigiriCount(hand) >= 2],
       [card |-> "Dumpling",      when |-> CardCount(tableau, "Dumpling") < 5],
       [card |-> "Squid Nigiri",  when |-> TRUE],
       [card |-> "Salmon Nigiri", when |-> TRUE],
       [card |-> "Egg Nigiri",    when |-> TRUE],
       [card |-> "Sashimi",       when |-> CardCount(tableau, "Sashimi") = 1],
       [card |-> "Tempura",       when |-> CardCount(tableau, "Tempura") = 1],
       [card |-> "Sashimi",       when |-> TRUE],
       [card |-> "Maki Roll (3)", when |-> TRUE],
       [card |-> "Maki Roll (2)", when |-> TRUE],
       [card |-> "Maki Roll (1)", when |-> TRUE] >>

\* The rungs of the ladder the hand can take.
Rungs(hand, tableau) ==
    { k \in DOMAIN Ladder(hand, tableau) :
        Ladder(hand, tableau)[k].when /\ Holds(hand, Ladder(hand, tableau)[k].card) }

\* The index the ladder yields: the first card of its first open rung, or 0.
LadderIndex(hand, tableau) ==
    IF Rungs(hand, tableau) = {} THEN 0
    ELSE FirstAt(hand, Ladder(hand, tableau)[Min(Rungs(hand, tableau))].card)

\* C23: with no combo to complete, the Chopsticks rule not firing, a player
\* count of 2 to 5 and some tableau tracked, choose_card returns the index
\* of the first Pudding when the hand holds Pudding and the client is behind
\* the most Puddings with own + turns_left above it or at or below the
\* fewest (turns_left = 10, 9, 8, 7 for 2, 3, 4, 5 players, minus turn);
\* otherwise it returns what the later rules yield.
C23_PuddingRule ==
    ( /\ Applied("choose_card")
      /\ ComboCard(state.hand, state.my_tableau) = ""
      /\ ~ChopsticksRuleFires(state)
      /\ state.player_count \in 2..5
      /\ TrackedPuddings(state) # {} )
        => result.value = IF Holds(state.hand, "Pudding") /\ PuddingRace(state)
                          THEN FirstAt(state.hand, "Pudding")
                          ELSE LadderIndex(state.hand, state.my_tableau)

\* Three players, turn 5 of 9, no Pudding of one's own against 1 and 1:
\* Pudding at index 1 is played ahead of the Sashimi at index 0.
C23_Witness ==
    /\ Applied("choose_card")
    /\ state.hand = <<"Sashimi", "Pudding">>
    /\ state.player_count = 3
    /\ state.turn = 5
    /\ state.my_tableau = <<>>
    /\ DOMAIN state.all_tableaux = {"Bob", "Carol"}
    /\ TrackedPuddings(state) = {1}
    /\ result.value = 1

\* The next hand has been seen.
NextHandKnown(s) ==
    s.current_hand_ptr + 2 <= Len(s.all_hands) /\ s.all_hands[s.current_hand_ptr + 2].known

\* C24 as claimed: should_grab_chopsticks is true iff the next hand is known
\* and holds Wasabi with a Nigiri, two Sashimi or two Tempura, for every
\* current hand and own tableau.
C24_GrabIffNextHandPromises ==
    Applied("should_grab_chopsticks") => (result.value <=> NextHandPromises(state))

\* C24 amended: should_grab_chopsticks is true iff the current hand holds
\* Chopsticks, own tableau holds none, and the next hand is known and holds
\* Wasabi with a Nigiri, two Sashimi or two Tempura; it is false whenever
\* the next hand is unknown.
C24_GrabIffChopsticksOfferedAndNextHandPromises ==
    Applied("should_grab_chopsticks")
        => /\ result.value <=> ( /\ Holds(state.hand, "Chopsticks")
                                 /\ ~Holds(state.my_tableau, "Chopsticks")
                                 /\ NextHandPromises(state) )
           /\ ~NextHandKnown(state) => ~result.value

\* Chopsticks in hand, none in the tableau, two Sashimi coming: true.
C24_Witness ==
    /\ Applied("should_grab_chopsticks")
    /\ state.hand = <<"Pudding", "Chopsticks">>
    /\ state.my_tableau = <<>>
    /\ NextHandKnown(state)
    /\ state.all_hands[2].cards = <<"Sashimi", "Sashimi">>
    /\ result.value = TRUE

\* C25: when no combo is completed and neither the Chopsticks rule nor the
\* Pudding rule fires, choose_card returns the first occurrence of the card
\* of the first open rung of the ladder: Wasabi with two Nigiri in hand,
\* Dumpling under 5 in the tableau, Squid, Salmon, Egg Nigiri, Sashimi on
\* exactly 1, Tempura on exactly 1, Sashimi, Maki Roll (3), (2), (1); and
\* index 0 when no rung is open.
C25_Ladder ==
    ( /\ Applied("choose_card")
      /\ ComboCard(state.hand, state.my_tableau) = ""
      /\ ~ChopsticksRuleFires(state)
      /\ ~PuddingRuleFires(state) )
        => result.value = LadderIndex(state.hand, state.my_tableau)

\* The hand Maki Roll (2), Maki Roll (3) on a tableau of four Sashimi: no
\* rung above Maki Roll (3) is open, and it is found at index 1.
C25_Witness ==
    /\ Applied("choose_card")
    /\ state.my_tableau = <<"Sashimi", "Sashimi", "Sashimi", "Sashimi">>
    /\ state.hand = <<"Maki Roll (2)", "Maki Roll (3)">>
    /\ result.value = 1

\* The card of the hand at a 0-based index.
CardAt(hand, idx) == hand[idx + 1]

\* C26: a pair returned by chopstick_combo never has Wasabi at its second
\* index; when Wasabi is one of the two cards it is at the first index.
C26_WasabiNeverSecond ==
    (Applied("chopstick_combo") /\ result.value # <<>>)
        => /\ CardAt(state.hand, result.value[2]) # "Wasabi"
           /\ (\E k \in 1..2 : CardAt(state.hand, result.value[k]) = "Wasabi")
                  => CardAt(state.hand, result.value[1]) = "Wasabi"

\* Egg Nigiri sits before Wasabi in the hand: the pair is Wasabi's index 1,
\* then Egg Nigiri's index 0.
C26_Witness ==
    /\ Applied("chopstick_combo")
    /\ state.hand = <<"Egg Nigiri", "Wasabi">>
    /\ state.my_tableau = <<"Chopsticks">>
    /\ result.value = <<1, 0>>

\* The 0-based positions of the first two cards of that name.
FirstTwo(hand, card) ==
    LET at == { i \in DOMAIN hand : hand[i] = card }
    IN  <<Min(at) - 1, Min(at \ {Min(at)}) - 1>>

\* The pair of the chopstick play, in the order of precedence, or <<>>.
ChopstickPair(hand, tableau) ==
    IF ~Holds(tableau, "Chopsticks") THEN <<>>
    ELSE IF CardCount(tableau, "Sashimi") % 3 = 1 /\ CardCount(hand, "Sashimi") >= 2
        THEN FirstTwo(hand, "Sashimi")
    ELSE IF Holds(hand, "Wasabi") /\ Holds(hand, "Squid Nigiri")
        THEN <<FirstAt(hand, "Wasabi"), FirstAt(hand, "Squid Nigiri")>>
    ELSE IF Holds(hand, "Wasabi") /\ Holds(hand, "Salmon Nigiri")
        THEN <<FirstAt(hand, "Wasabi"), FirstAt(hand, "Salmon Nigiri")>>
    ELSE IF CardCount(tableau, "Tempura") % 2 = 1 /\ CardCount(hand, "Tempura") >= 2
        THEN FirstTwo(hand, "Tempura")
    ELSE IF Holds(hand, "Wasabi") /\ Holds(hand, "Egg Nigiri")
        THEN <<FirstAt(hand, "Wasabi"), FirstAt(hand, "Egg Nigiri")>>
    ELSE <<>>

\* The index of the single play: combo, Chopsticks rule, Pudding rule, ladder.
SinglePlay(s) ==
    IF ComboCard(s.hand, s.my_tableau) # ""
        THEN FirstAt(s.hand, ComboCard(s.hand, s.my_tableau))
    ELSE IF ChopsticksRuleFires(s) THEN FirstAt(s.hand, "Chopsticks")
    ELSE IF PuddingRuleFires(s) THEN FirstAt(s.hand, "Pudding")
    ELSE LadderIndex(s.hand, s.my_tableau)

\* C27: chopstick_combo returns the first applicable pair in the order two
\* Sashimi (tableau count 1 modulo 3), Wasabi + Squid, Wasabi + Salmon, two
\* Tempura (tableau count 1 modulo 2), Wasabi + Egg, and none when there is
\* no such pair or no Chopsticks in the tableau; a turn for which it returns
\* none is played as the single play of choose_card.
C27_ChopstickPairsInOrder ==
    /\ [](Applied("chopstick_combo")
            => result.value = ChopstickPair(state.hand, state.my_tableau))
    /\ [][ ( /\ result'.fn = "play_turn"
             /\ state.hand # <<>>
             /\ ChopstickPair(state.hand, state.my_tableau) = <<>> )
           => out' = <<Command("PLAY", SinglePlay(state), -1, "")>> ]_vars

\* One Tempura and Chopsticks in the tableau, two Tempura and Wasabi with
\* Salmon Nigiri in hand: Wasabi + Salmon comes before the Tempura pair.
C27_Witness ==
    /\ Applied("chopstick_combo")
    /\ state.my_tableau = <<"Chopsticks", "Tempura">>
    /\ state.hand = <<"Tempura", "Tempura", "Wasabi", "Salmon Nigiri">>
    /\ result.value = <<2, 3>>

-----------------------------------------------------------------------------
(* Properties of the HAND handler.                                         *)

\* C28: every HAND handled in a game that lists no card sends nothing and
\* records no play; every other HAND sends exactly one command before the
\* next read: CHOPSTICKS with the pair when own tableau holds Chopsticks at
\* that moment and the chopstick play yields a pair, PLAY with the single
\* play's index otherwise.
C28_OneCommandPerHand ==
    [][ (pc = "_play_game" /\ line'.kw = "HAND")
        => IF line'.hand = <<>>
           THEN /\ out' = <<>>
                /\ state'.my_tableau = state.my_tableau
                /\ state'.last_card_played = state.last_card_played
           ELSE /\ Len(out') = 1
                /\ IF /\ Holds(state.my_tableau, "Chopsticks")
                      /\ ChopstickPair(line'.hand, state.my_tableau) # <<>>
                   THEN LET pair == ChopstickPair(line'.hand, state.my_tableau)
                        IN  out'[1] = Command("CHOPSTICKS", pair[1], pair[2], "")
                   ELSE /\ out'[1].cmd = "PLAY"
                        /\ out'[1].idx1 \in 0..(Len(line'.hand) - 1)
                        /\ out'[1].idx2 = -1 ]_vars

\* The hand Wasabi, Squid Nigiri arrived on a tableau that held Chopsticks:
\* the one command sent was CHOPSTICKS 0 1, and the tableau grew by the two
\* cards less the Chopsticks.
C28_Witness ==
    /\ Handled("HAND")
    /\ line.hand = <<"Wasabi", "Squid Nigiri">>
    /\ out = <<Command("CHOPSTICKS", 0, 1, "")>>
    /\ state.my_tableau = <<"Wasabi", "Squid Nigiri">>

\* C29: a HAND handled while the slot under the cursor is already populated
\* (a second HAND before the next PLAYED) does not rewrite the slot: it
\* keeps the depleted copy it held, less at most the card then played.
C29_SecondHandKeepsDepletedCopy ==
    [][ ( /\ pc = "_play_game"
          /\ line'.kw = "HAND"
          /\ CursorInBuffer(state)
          /\ state.all_hands[state.current_hand_ptr + 1].known )
        => LET old == state.all_hands[state.current_hand_ptr + 1].cards
               new == state'.all_hands[state.current_hand_ptr + 1].cards
           IN  \/ new = old
               \/ \E k \in 1..Len(line'.hand) : RemovedOne(old, new, line'.hand[k]) ]_vars

-----------------------------------------------------------------------------
(* Properties of the tableau helpers.                                      *)

\* C30: has_unused_wasabi is true iff own tableau holds more Wasabi than
\* Egg, Salmon and Squid Nigiri together, for every tableau.
C30_UnusedWasabiIffMoreWasabiThanNigiri ==
    Applied("has_unused_wasabi")
        => (result.value <=>
               CardCount(state.my_tableau, "Wasabi")
                   > CardCount(state.my_tableau, "Egg Nigiri")
                       + CardCount(state.my_tableau, "Salmon Nigiri")
                       + CardCount(state.my_tableau, "Squid Nigiri"))

\* Two Wasabi against one Nigiri: one Wasabi is unused.
C30_Witness ==
    /\ Applied("has_unused_wasabi")
    /\ state.my_tableau = <<"Wasabi", "Wasabi", "Egg Nigiri">>
    /\ result.value = TRUE

-----------------------------------------------------------------------------
(* Properties of the line decoders.                                        *)

\* C31: parse_played of a PLAYED line of name:card[,card] groups separated
\* by ';' returns the map from each named player to that player's listed
\* cards in order, card names with spaces kept whole; empty groups and
\* groups without ':' are skipped.
C31_PlayedDecodesToListedCards ==
    Applied("parse_played") => result.value = line.reveals

\* A chopstick play of two cards, one with a space in its name, followed by
\* a group without a colon: the map has the one entry.
C31_Witness ==
    /\ Applied("parse_played")
    /\ line.text = "PLAYED Alice:Squid Nigiri,Tempura; WAITING"
    /\ DOMAIN result.value = {"Alice"}
    /\ result.value["Alice"] = <<"Squid Nigiri", "Tempura">>

\* C32: parse_hand of a HAND line of index:cardName tokens returns the card
\* names in listed order, one per index marker, everything between one
\* marker and the next being one card name.
C32_HandDecodesToListedCards ==
    Applied("parse_hand")
        => /\ result.value = line.hand
           /\ Len(result.value) = Len(line.hand)

C32_Witness ==
    /\ Applied("parse_hand")
    /\ line.text = "HAND 0:Maki Roll (3) 1:Salmon Nigiri 2:Tempura"
    /\ result.value = <<"Maki Roll (3)", "Salmon Nigiri", "Tempura">>

-----------------------------------------------------------------------------
(* Properties of the rotation cursor.                                      *)

\* The session as choose_card sees it when the HAND line msg is decided on.
AtDecision(s, msg) == [s EXCEPT !.hand = msg.hand]

\* C33: in every state of a game no slot of the rotation buffer above the
\* cursor is known, so the next hand is unknown, and at every HAND the
\* Chopsticks rule of choose_card does not fire.
C33_NothingKnownAheadOfCursor ==
    /\ [](state # NoState => (NoneAboveCursor(state) /\ ~NextHandKnown(state)))
    /\ [][ (pc = "_play_game" /\ line'.kw = "HAND")
           => /\ ~NextHandKnown(AtDecision(state, line'))
              /\ ~ChopsticksRuleFires(AtDecision(state, line')) ]_vars

\* Chopsticks were offered in the first turn of a two-player game and
\* played by the ladder: the slot under the cursor is known, the one ahead
\* is not.
C33_Witness ==
    /\ Handled("HAND")
    /\ line.hand = <<"Chopsticks">>
    /\ state.player_count = 2
    /\ state.current_hand_ptr = 0
    /\ Len(state.all_hands) = 2
    /\ state.all_hands[1].known
    /\ ~state.all_hands[2].known
    /\ state.my_tableau = <<"Chopsticks">>

\* C34: throughout a well-formed round the cursor is a valid index of the
\* rotation buffer whenever a HAND is handled, and the hand is recorded in
\* the slot under the cursor.
C34_CursorInBufferAtEveryHand ==
    [][ (pc = "_play_game" /\ line'.kw = "HAND")
        => /\ CursorInBuffer(state)
           /\ state'.all_hands[state.current_hand_ptr + 1].known ]_vars

-----------------------------------------------------------------------------
(* Properties of the commands sent.                                        *)

\* i is a 0-based index of a hand of k cards.
ValidIndex(i, k) == 0 <= i /\ i < k

\* C35: every command sent in answer to a HAND that lists k >= 1 cards
\* carries valid indices: PLAY i has 0 <= i < k, and CHOPSTICKS i j has
\* 0 <= i < k, 0 <= j < k and i # j.
C35_CommandsCarryValidIndices ==
    (Applied("play_turn") /\ Len(line.hand) >= 1) =>
        /\ result.value # <<>>
        /\ \A n \in 1..Len(result.value) :
              LET c == result.value[n]
                  k == Len(line.hand)
              IN  \/ /\ c.cmd = "PLAY"
                     /\ ValidIndex(c.idx1, k)
                  \/ /\ c.cmd = "CHOPSTICKS"
                     /\ ValidIndex(c.idx1, k)
                     /\ ValidIndex(c.idx2, k)
                     /\ c.idx1 # c.idx2

C35_Witness ==
    /\ Applied("play_turn")
    /\ line.hand = <<"Tempura", "Sashimi", "Sashimi">>
    /\ result.value = <<Command("CHOPSTICKS", 1, 2, "")>>

-----------------------------------------------------------------------------
(* Properties of tournament lines read inside a wait.                      *)

\* The reads of tournament mode that follow TOURNAMENT_WELCOME.
AfterTournamentWelcome ==
    /\ mode = "tournament"
    /\ pc \in {"run_tournament", "_join_match", "_leave_game", "_play_game"}

\* The line read is answered in the same step with a TJOIN for its token.
AnsweredWithTjoin(msg, sent) ==
    \E k \in 1..Len(sent) : sent[k] = Command("TJOIN", -1, -1, msg.parts[3])

\* C36: in tournament mode no match assignment is lost: a TOURNAMENT_MATCH
\* with a non-BYE token read after TOURNAMENT_WELCOME is answered with a
\* TJOIN for that token, at once or from the pending message it is kept in,
\* whatever the client was waiting for (a WELCOME after TJOIN, an OK after
\* LEAVE, or a message of a running match).
C36_NoMatchAssignmentLost ==
    [][ (AfterTournamentWelcome /\ line'.kw = "TOURNAMENT_MATCH"
            /\ WellFormedTournamentLine(line') /\ ~IsBye(line'))
        => (AnsweredWithTjoin(line', out') \/ pending_message' = line') ]_vars

\* C37: in tournament mode a TOURNAMENT_COMPLETE read at any point after
\* TOURNAMENT_WELCOME brings the client to the terminal state (it stops
\* reading and closes the connection), at once or, kept as the pending
\* message, as soon as the server has answered the LEAVE.
C37_TournamentCompleteEndsTheRun ==
    [][ (AfterTournamentWelcome /\ line'.kw = "TOURNAMENT_COMPLETE")
        => \/ pc' = "done" /\ ~connected'
           \/ pending_message' = line' /\ pc' = "_leave_game" ]_vars

-----------------------------------------------------------------------------
(* Properties of Wasabi pairing.                                           *)

\* The Wasabi left unconsumed when the cards of the tableau from position k
\* on are played in order onto `unused` unconsumed Wasabi: a Wasabi adds
\* one, a Nigiri consumes one earlier Wasabi if there is any.
RECURSIVE UnconsumedWasabi(_, _, _)
UnconsumedWasabi(tableau, k, unused) ==
    IF k > Len(tableau) THEN unused
    ELSE IF tableau[k] = "Wasabi" THEN UnconsumedWasabi(tableau, k + 1, unused + 1)
    ELSE IF tableau[k] \in NigiriCards /\ unused > 0
        THEN UnconsumedWasabi(tableau, k + 1, unused - 1)
    ELSE UnconsumedWasabi(tableau, k + 1, unused)

\* C38: the count-based has_unused_wasabi agrees with the order-based
\* Wasabi pairing on every own tableau: it is true exactly when the tableau
\* holds a Wasabi that no Nigiri played after it has consumed.
C38_CountAgreesWithOrderedPairing ==
    Applied("has_unused_wasabi")
        => (result.value <=> UnconsumedWasabi(state.my_tableau, 1, 0) > 0)

====
